---- MODULE Spec2Model ----
(***************************************************************************)
(* A model of the retrieval-and-answer engine of the search backend:       *)
(* the admission controller (checkRateLimit), the response cache           *)
(* (SearchCache), the in-memory document index with its corpus version,    *)
(* and the two-stage answer pipeline (searchDocuments) behind POST /search.*)
(*                                                                         *)
(* The server is a single Node.js process: a handler runs to completion    *)
(* between two awaits, so every action below is the code between two       *)
(* suspension points of one handler.                                       *)
(***************************************************************************)
EXTENDS Integers, Sequences, FiniteSets, TLC

VARIABLES
    \* ---- admission controller (routes/searchRoutes.js) ----
    now,             \* Date.now(), in milliseconds
    rateLimitStore,  \* Map ip -> { requests, blocked, blockedUntil }
    lastResult,      \* what the latest checkRateLimit call returned, and to whom
    admitted,        \* history: per client, how many requests were admitted at each instant
    inflight,        \* per client, admitted requests whose handler is still suspended
    retryDue,        \* history: per client, the rejections whose retry-after is pending
    \* ---- response cache (SearchCache) ----
    maxSize,         \* this.maxSize
    cache,           \* this.cache: a Map, as the sequence of its entries in iteration order
    cacheOp,         \* the latest call on the cache, its key and what it returned
    touchOrder,      \* history: the keys held, least recently touched first
    \* ---- corpus source and document index (routes/searchRoutes.js) ----
    fs,              \* the documents directory: file name -> modification time, or NoFile
    fsClock,         \* the latest modification time handed out
    documentIndex,   \* the installed index: the build whose array it is, or Null
    corpusVersion,   \* the cached fingerprint, or Null
    builds,          \* the calls of buildDocumentIndex: position, listing, local array
    handlers,        \* the requests being handled: position, documents held, token
    lastRead,        \* history: the corpus and the token at the latest cache lookup
    \* ---- documents table and POST /ingest (services/ingestionService.js) ----
    db,              \* the rows of the table documents, in the order of their insertion
    ingest,          \* the POST /ingest request being handled: position, counts, response
    lastRejected,    \* history: the latest query the validation of POST /search rejected
    textCall,        \* history: the latest call of an exported text function, and its result
    \* ---- answer pipeline (searchDocuments) ----
    pipe             \* one request: its inputs, its position, the backend calls it issued

rateVars == <<now, rateLimitStore, lastResult, admitted, inflight, retryDue>>

cacheVars == <<maxSize, cache, cacheOp, touchOrder>>

indexVars == <<fs, fsClock, documentIndex, corpusVersion, builds, handlers, lastRead>>

pipeVars == <<pipe>>

serverVars == <<db, ingest, lastRejected, textCall>>

vars == <<rateVars, cacheVars, indexVars, pipeVars, serverVars>>

\* what the actions of one component leave alone
notRate == <<cacheVars, indexVars, pipeVars, serverVars>>
notCache == <<rateVars, indexVars, pipeVars, serverVars>>

(***************************************************************************)
(* Admission controller                                                    *)
(***************************************************************************)

RATE_LIMIT_WINDOW_MS == 60000
RATE_LIMIT_MAX_REQUESTS == 10

\* How many windows after the first the clock of the model runs over.
MaxWindows == 1
\* How many admitted requests of one client may be suspended at once.
MaxInflight == 2

Clients == {"ip1"}

\* The instants at which requests arrive: the start of every window, and one
\* millisecond after it (the two sides of each comparison of the code).
Instants == {k * RATE_LIMIT_WINDOW_MS + o : k \in 0..MaxWindows, o \in {0, 1}}

NoEntry == [absent |-> TRUE]

NewEntry == [requests |-> <<>>, blocked |-> FALSE, blockedUntil |-> 0]

\* Math.floor(ms / 1000) for ms >= 0
FloorSeconds(ms) == ms \div 1000

\* Math.ceil(ms / 1000) for ms >= 0
CeilSeconds(ms) == (ms + 999) \div 1000

NoResult == [ip |-> "", at |-> 0, allowed |-> FALSE, retryAfter |-> 0,
             reason |-> "none", remaining |-> 0]

\* checkRateLimit with the comparison of the limit off by one
checkRateLimitOffByOne(store, ip, t) ==
    LET windowStart == t - RATE_LIMIT_WINDOW_MS
        entry == IF store[ip] = NoEntry THEN NewEntry ELSE store[ip]
    IN  IF entry.blocked /\ t < entry.blockedUntil
        THEN [store |-> [store EXCEPT ![ip] = entry],
              result |-> [ip |-> ip, at |-> t, allowed |-> FALSE,
                          retryAfter |-> CeilSeconds(entry.blockedUntil - t),
                          reason |-> "blocked", remaining |-> 0]]
        ELSE
        LET cleared == IF entry.blocked /\ t >= entry.blockedUntil
                       THEN [entry EXCEPT !.blocked = FALSE, !.requests = <<>>]
                       ELSE entry
            kept == SelectSeq(cleared.requests, LAMBDA time : time > windowStart)
        IN  IF Len(kept) > RATE_LIMIT_MAX_REQUESTS
            THEN [store |-> [store EXCEPT ![ip] =
                                [cleared EXCEPT !.requests = kept, !.blocked = TRUE,
                                                !.blockedUntil = t + RATE_LIMIT_WINDOW_MS]],
                  result |-> [ip |-> ip, at |-> t, allowed |-> FALSE,
                              retryAfter |-> RATE_LIMIT_WINDOW_MS \div 1000,
                              reason |-> "rate_limit", remaining |-> 0]]
            ELSE [store |-> [store EXCEPT ![ip] =
                                [cleared EXCEPT !.requests = Append(kept, t)]],
                  result |-> [ip |-> ip, at |-> t, allowed |-> TRUE, retryAfter |-> 0,
                              reason |-> "ok",
                              remaining |-> RATE_LIMIT_MAX_REQUESTS - (Len(kept) + 1)]]

\* checkRateLimit restarting the block at every request it rejects while
\* the client is blocked
checkRateLimitExtendingBlock(store, ip, t) ==
    LET windowStart == t - RATE_LIMIT_WINDOW_MS
        entry == IF store[ip] = NoEntry THEN NewEntry ELSE store[ip]
    IN  IF entry.blocked /\ t < entry.blockedUntil
        THEN [store |-> [store EXCEPT ![ip] =
                            [entry EXCEPT !.blockedUntil = t + RATE_LIMIT_WINDOW_MS]],
              result |-> [ip |-> ip, at |-> t, allowed |-> FALSE,
                          retryAfter |-> CeilSeconds(entry.blockedUntil - t),
                          reason |-> "blocked", remaining |-> 0]]
        ELSE
        LET cleared == IF entry.blocked /\ t >= entry.blockedUntil
                       THEN [entry EXCEPT !.blocked = FALSE, !.requests = <<>>]
                       ELSE entry
            kept == SelectSeq(cleared.requests, LAMBDA time : time > windowStart)
        IN  IF Len(kept) >= RATE_LIMIT_MAX_REQUESTS
            THEN [store |-> [store EXCEPT ![ip] =
                                [cleared EXCEPT !.requests = kept, !.blocked = TRUE,
                                                !.blockedUntil = t + RATE_LIMIT_WINDOW_MS]],
                  result |-> [ip |-> ip, at |-> t, allowed |-> FALSE,
                              retryAfter |-> RATE_LIMIT_WINDOW_MS \div 1000,
                              reason |-> "rate_limit", remaining |-> 0]]
            ELSE [store |-> [store EXCEPT ![ip] =
                                [cleared EXCEPT !.requests = Append(kept, t)]],
                  result |-> [ip |-> ip, at |-> t, allowed |-> TRUE, retryAfter |-> 0,
                              reason |-> "ok",
                              remaining |-> RATE_LIMIT_MAX_REQUESTS - (Len(kept) + 1)]]

\* checkRateLimit pushing the timestamp of a request it rejects
checkRateLimitRecordingRejected(store, ip, t) ==
    LET windowStart == t - RATE_LIMIT_WINDOW_MS
        entry == IF store[ip] = NoEntry THEN NewEntry ELSE store[ip]
    IN  IF entry.blocked /\ t < entry.blockedUntil
        THEN [store |-> [store EXCEPT ![ip] = entry],
              result |-> [ip |-> ip, at |-> t, allowed |-> FALSE,
                          retryAfter |-> CeilSeconds(entry.blockedUntil - t),
                          reason |-> "blocked", remaining |-> 0]]
        ELSE
        LET cleared == IF entry.blocked /\ t >= entry.blockedUntil
                       THEN [entry EXCEPT !.blocked = FALSE, !.requests = <<>>]
                       ELSE entry
            kept == SelectSeq(cleared.requests, LAMBDA time : time > windowStart)
        IN  IF Len(kept) >= RATE_LIMIT_MAX_REQUESTS
            THEN [store |-> [store EXCEPT ![ip] =
                                [cleared EXCEPT !.requests = Append(kept, t), !.blocked = TRUE,
                                                !.blockedUntil = t + RATE_LIMIT_WINDOW_MS]],
                  result |-> [ip |-> ip, at |-> t, allowed |-> FALSE,
                              retryAfter |-> RATE_LIMIT_WINDOW_MS \div 1000,
                              reason |-> "rate_limit", remaining |-> 0]]
            ELSE [store |-> [store EXCEPT ![ip] =
                                [cleared EXCEPT !.requests = Append(kept, t)]],
                  result |-> [ip |-> ip, at |-> t, allowed |-> TRUE, retryAfter |-> 0,
                              reason |-> "ok",
                              remaining |-> RATE_LIMIT_MAX_REQUESTS - (Len(kept) + 1)]]

\* checkRateLimit(ip) called at Date.now() = t: the store after the call and
\* the value returned.
checkRateLimit(store, ip, t) ==
    LET windowStart == t - RATE_LIMIT_WINDOW_MS
        \* get or create the entry
        entry == IF store[ip] = NoEntry THEN NewEntry ELSE store[ip]
    IN  IF entry.blocked /\ t < entry.blockedUntil
        THEN \* currently blocked
             [store |-> [store EXCEPT ![ip] = entry],
              result |-> [ip |-> ip, at |-> t, allowed |-> FALSE,
                          retryAfter |-> CeilSeconds(entry.blockedUntil - t),
                          reason |-> "blocked", remaining |-> 0]]
        ELSE
        LET \* clear an expired block
            cleared == IF entry.blocked /\ t >= entry.blockedUntil
                       THEN [entry EXCEPT !.blocked = FALSE, !.requests = <<>>]
                       ELSE entry
            \* drop the requests outside the window
            kept == SelectSeq(cleared.requests, LAMBDA time : time > windowStart)
        IN  IF Len(kept) >= RATE_LIMIT_MAX_REQUESTS
            THEN [store |-> [store EXCEPT ![ip] =
                                [cleared EXCEPT !.requests = kept, !.blocked = TRUE,
                                                !.blockedUntil = t + RATE_LIMIT_WINDOW_MS]],
                  result |-> [ip |-> ip, at |-> t, allowed |-> FALSE,
                              retryAfter |-> RATE_LIMIT_WINDOW_MS \div 1000,
                              reason |-> "rate_limit", remaining |-> 0]]
            ELSE [store |-> [store EXCEPT ![ip] =
                                [cleared EXCEPT !.requests = Append(kept, t)]],
                  result |-> [ip |-> ip, at |-> t, allowed |-> TRUE, retryAfter |-> 0,
                              reason |-> "ok",
                              remaining |-> RATE_LIMIT_MAX_REQUESTS - (Len(kept) + 1)]]

\* A rejection at instant t that told its client to retry after r seconds:
\* the instant from which the retry is due, and whether no request of the
\* client has been admitted since.
Rejection(t, r) == [due |-> t + r * 1000, clean |-> TRUE]

\* the rejections whose retry is not due yet at instant t (a request at t is
\* the first request at or after the due instant of the others)
StillPending(rejections, t) == {e \in rejections : e.due > t}

InitRate ==
    /\ now = 0
    /\ rateLimitStore = [ip \in Clients |-> NoEntry]
    /\ lastResult = NoResult
    /\ admitted = [ip \in Clients |-> [t \in Instants |-> 0]]
    /\ inflight = [ip \in Clients |-> 0]
    /\ retryDue = [ip \in Clients |-> {}]

\* Time passes between two requests.
Tick ==
    /\ \E t \in Instants : t > now /\ now' = t
    /\ UNCHANGED <<rateLimitStore, lastResult, admitted, inflight, retryDue, notRate>>

\* POST /search arrives from ip and is rejected by the admission
\* controller: the handler answers 429 and ends.
SearchThrottled(ip) ==
    LET r == checkRateLimit(rateLimitStore, ip, now)
    IN  /\ ~r.result.allowed
        /\ rateLimitStore' = r.store
        /\ lastResult' = r.result
        /\ retryDue' = [retryDue EXCEPT ![ip] =
                            StillPending(@, now) \cup {Rejection(now, r.result.retryAfter)}]
        /\ UNCHANGED <<now, admitted, inflight, notRate>>

\* POST /search arrives from ip and is admitted: the handler goes on and
\* suspends at its first await, other requests run meanwhile.
SearchAdmitted(ip) ==
    LET r == checkRateLimit(rateLimitStore, ip, now)
    IN  /\ r.result.allowed
        /\ inflight[ip] < MaxInflight
        /\ rateLimitStore' = r.store
        /\ lastResult' = r.result
        /\ admitted' = [admitted EXCEPT ![ip][now] = @ + 1]
        /\ inflight' = [inflight EXCEPT ![ip] = @ + 1]
        /\ retryDue' = [retryDue EXCEPT ![ip] =
                            {[e EXCEPT !.clean = FALSE] : e \in StillPending(@, now)}]
        /\ UNCHANGED <<now, notRate>>

\* An admitted request completes (its response is sent).
SearchCompletes(ip) ==
    /\ inflight[ip] > 0
    /\ inflight' = [inflight EXCEPT ![ip] = @ - 1]
    /\ UNCHANGED <<now, rateLimitStore, lastResult, admitted, retryDue, notRate>>

NextRate ==
    \/ Tick
    \/ \E ip \in Clients : SearchThrottled(ip)
    \/ \E ip \in Clients : SearchAdmitted(ip)
    \/ \E ip \in Clients : SearchCompletes(ip)

(***************************************************************************)
(* Response cache                                                          *)
(***************************************************************************)

\* The largest capacity a cache of the model is constructed with.
MaxCapacity == 2

\* Strings are sequences of characters.
Lower(c) ==
    CASE c = "A" -> "a" [] c = "B" -> "b" [] c = "C" -> "c" [] c = "D" -> "d"
      [] OTHER -> c

IsSpace(c) == c \in {" ", "\t"}

\* String.prototype.toLowerCase
ToLowerCase(s) == [i \in 1..Len(s) |-> Lower(s[i])]

\* String.prototype.trim
RECURSIVE Trim(_)
Trim(s) ==
    IF s = <<>> THEN s
    ELSE IF IsSpace(Head(s)) THEN Trim(Tail(s))
    ELSE IF IsSpace(s[Len(s)]) THEN Trim(SubSeq(s, 1, Len(s) - 1))
    ELSE s

\* s.replace(/\s+/g, ' '): every maximal run of whitespace becomes one space
RECURSIVE CollapseSpaces(_)
CollapseSpaces(s) ==
    IF s = <<>> THEN s
    ELSE IF IsSpace(Head(s))
         THEN IF Len(s) > 1 /\ IsSpace(s[2])
              THEN CollapseSpaces(Tail(s))
              ELSE <<" ">> \o CollapseSpaces(Tail(s))
         ELSE <<Head(s)>> \o CollapseSpaces(Tail(s))

\* getKey leaving the corpus version out of the key
getKeyQueryOnly(query, version) == CollapseSpaces(Trim(ToLowerCase(query)))

\* getKey without the replacement of the runs of whitespace
getKeyNoCollapse(query, version) == Trim(ToLowerCase(query)) \o <<":", ":">> \o version

\* SearchCache.getKey: `${normalizedQuery}::${corpusVersion}`
getKey(query, version) ==
    CollapseSpaces(Trim(ToLowerCase(query))) \o <<":", ":">> \o version

\* A Map is the sequence of its [key, value] entries in insertion order.
MapKeys(m) == {m[i].key : i \in 1..Len(m)}

MapHas(m, k) == k \in MapKeys(m)

MapIndex(m, k) == CHOOSE i \in 1..Len(m) : m[i].key = k

\* Map.prototype.get: undefined when the key is absent
Undefined == [undefined |-> TRUE]

\* what SearchCache.get returns on a miss
NullEntry == [null |-> TRUE]

MapGet(m, k) == IF MapHas(m, k) THEN m[MapIndex(m, k)].value ELSE Undefined

\* Map.prototype.delete
MapDelete(m, k) == SelectSeq(m, LAMBDA e : e.key # k)

\* Map.prototype.set: a present key keeps its place, a new key goes last
MapSet(m, k, v) ==
    IF MapHas(m, k)
    THEN [m EXCEPT ![MapIndex(m, k)] = [key |-> k, value |-> v]]
    ELSE Append(m, [key |-> k, value |-> v])

\* SearchCache.get without the re-insertion of the hit
CacheAfterGetNoPromote(m, k) == m

\* SearchCache.get: the map after the call (a hit is deleted and set again)
CacheAfterGet(m, k) ==
    IF MapGet(m, k) # Undefined
    THEN MapSet(MapDelete(m, k), k, MapGet(m, k))
    ELSE m

\* SearchCache.get: the value returned
CacheGetResult(m, k) == IF MapGet(m, k) # Undefined THEN MapGet(m, k) ELSE NullEntry

\* SearchCache.set without the eviction
CacheAfterSetNoEvict(m, size, k, v) == MapSet(m, k, v)

\* SearchCache.set: the map after the call
CacheAfterSet(m, size, k, v) ==
    LET evicted == IF Len(m) >= size /\ ~MapHas(m, k) /\ Len(m) > 0
                   THEN MapDelete(m, m[1].key)   \* this.cache.keys().next().value
                   ELSE m
    IN  MapSet(evicted, k, v)

\* The queries, corpus versions and entries the cache is called with.
CacheQueries ==
    { <<"a">>, <<" ", "A", " ">>, <<"b">>, <<"a", " ", "b">>,
      <<"a", " ", "\t", "B">>, <<"a", "b">> }

CacheVersions == { <<"1", "-", "5">>, <<"2", "-", "5">> }

\* every query under the first version, one query under the second as well
CacheCalls ==
    {c \in CacheQueries \X CacheVersions :
        c[2] = <<"1", "-", "5">> \/ c[1] = <<"a">>}

CacheEntries ==
    { [answer |-> <<"answer1">>, sources |-> <<>>, documentsSelected |-> 0],
      [answer |-> <<"answer2">>, sources |-> <<"a.txt">>, documentsSelected |-> 1] }

\* the arguments of a call and, for a set, the keys the cache held when it
\* was made
NoCacheCall == [op |-> "none", query |-> <<>>, version |-> <<>>, value |-> NullEntry,
                held |-> {}]

CacheCallRecord(op, q, v, value) ==
    [op |-> op, query |-> q, version |-> v, value |-> value,
     held |-> IF op = "set" THEN MapKeys(cache) ELSE {}]

\* the record of a call: the arguments of the call before it are kept with
\* it when that was a set
\* (prevHit: the key the call before it hit, when that was a get that hit;
\* heldBeforePrev: the call is a get and its key was held when the set
\* before it was made)
NoCacheOp == [op |-> "none", key |-> <<>>, ret |-> NullEntry, evicted |-> {},
              prevHit |-> <<>>, call |-> NoCacheCall, prev |-> NoCacheCall,
              heldBeforePrev |-> FALSE]

CacheOpRecord(call, k, ret, evicted) ==
    [op |-> call.op, key |-> k, ret |-> ret, evicted |-> evicted,
     prevHit |-> IF cacheOp.op = "get" /\ cacheOp.ret # NullEntry THEN cacheOp.key ELSE <<>>,
     call |-> call,
     prev |-> IF cacheOp.op = "set" THEN [cacheOp.call EXCEPT !.held = {}] ELSE NoCacheCall,
     heldBeforePrev |-> call.op = "get" /\ cacheOp.op = "set" /\ k \in cacheOp.call.held]

\* new SearchCache(n)
InitCacheOf(n) ==
    /\ maxSize = n
    /\ cache = <<>>
    /\ cacheOp = NoCacheOp
    /\ touchOrder = <<>>

\* the cache of the server, constructed when the module is loaded
InitCache == InitCacheOf(MaxCapacity)

\* the history after key k was touched: k is the most recently touched
Touched(order, k) == Append(SelectSeq(order, LAMBDA x : x # k), k)

\* cache.get(query, version), on the cache alone
CacheGetUpdate(q, v) ==
    LET k == getKey(q, v)
    IN  /\ cache' = CacheAfterGet(cache, k)
        /\ cacheOp' = CacheOpRecord(CacheCallRecord("get", q, v, NullEntry), k,
                                    CacheGetResult(cache, k), {})
        /\ touchOrder' = IF MapHas(cache, k) THEN Touched(touchOrder, k) ELSE touchOrder
        /\ UNCHANGED maxSize

\* cache.set(query, version, value), on the cache alone
CacheSetUpdate(q, v, value) ==
    LET k == getKey(q, v)
    IN  /\ cache' = CacheAfterSet(cache, maxSize, k, value)
        /\ cacheOp' = CacheOpRecord(CacheCallRecord("set", q, v, value), k, NullEntry,
                                    MapKeys(cache) \ MapKeys(cache'))
        \* inserting an entry touches it; the entries no longer held leave the history
        /\ touchOrder' = LET t == IF MapHas(cache, k) THEN touchOrder ELSE Append(touchOrder, k)
                         IN  SelectSeq(t, LAMBDA x : MapHas(cache', x))
        /\ UNCHANGED maxSize

\* cache.get(query, version)
CacheGet(q, v) == CacheGetUpdate(q, v) /\ UNCHANGED notCache

\* cache.set(query, version, value)
CacheSet(q, v, value) == CacheSetUpdate(q, v, value) /\ UNCHANGED notCache

\* cache.clear(), on the cache alone
CacheClearUpdate ==
    /\ cache' = <<>>
    /\ cacheOp' = CacheOpRecord(CacheCallRecord("clear", <<>>, <<>>, NullEntry), <<>>,
                                NullEntry, MapKeys(cache))
    /\ touchOrder' = <<>>
    /\ UNCHANGED maxSize

\* cache.clear()
CacheClear == CacheClearUpdate /\ UNCHANGED notCache

NextCache ==
    \/ \E c \in CacheCalls : CacheGet(c[1], c[2])
    \/ \E c \in CacheCalls, e \in CacheEntries : CacheSet(c[1], c[2], e)
    \/ CacheClear

(***************************************************************************)
(* Corpus source, corpus version and document index                        *)
(***************************************************************************)

\* The latest modification time of the model.
MaxMtime == 1

FileNames == {"a.txt", "b.txt", "n.md"}

\* the order in which fs.readdir lists the directory
DirOrder == <<"a.txt", "b.txt", "n.md">>

\* path.extname(file).toLowerCase()
Extname(f) == IF f = "n.md" THEN <<".", "m", "d">> ELSE <<".", "t", "x", "t">>

\* the keys of EXTRACTORS
SupportedExtensions ==
    { <<".", "t", "x", "t">>, <<".", "p", "d", "f">>, <<".", "c", "s", "v">>,
      <<".", "p", "p", "t", "x">> }

isSupported(f) == Extname(f) \in SupportedExtensions

\* ext.replace('.', '')
Filetype(f) == Tail(Extname(f))

NoFile == 0
NoBuild == 0
NullVersion == <<>>

\* The calls of buildDocumentIndex that may be in progress at once (the
\* first is the build started when the module is loaded), and the requests
\* that read the index while they run.
Builds == {1, 2}
Handlers == {1}

DigitChar == <<"0", "1", "2", "3", "4", "5", "6", "7", "8", "9">>

\* the decimal digits of n, as a template literal prints them
RECURSIVE Digits(_)
Digits(n) ==
    IF n < 10 THEN <<DigitChar[n + 1]>>
    ELSE Digits(n \div 10) \o <<DigitChar[(n % 10) + 1]>>

\* files.filter(file => isSupported(file)) of fs.readdir(DOCUMENTS_PATH)
Listing(dir) == SelectSeq(DirOrder, LAMBDA f : dir[f] # NoFile /\ isSupported(f))

\* the loop over fs.stat: the latest mtimeMs of the files listed
RECURSIVE LatestMtime(_, _, _)
LatestMtime(listing, dir, latest) ==
    IF listing = <<>> THEN latest
    ELSE LatestMtime(Tail(listing), dir,
                     IF dir[Head(listing)] > latest THEN dir[Head(listing)] ELSE latest)

\* `error-${Date.now()}`
ErrorToken == <<"e", "r", "r", "o", "r", "-">> \o Digits(now)

EmptyToken == <<"e", "m", "p", "t", "y">>

\* generateCorpusVersion calling fs.stat for every file of the directory
CorpusVersionOfEveryFile(dir) ==
    IF Len(Listing(dir)) = 0 THEN EmptyToken
    ELSE Digits(Len(Listing(dir))) \o <<"-">>
         \o Digits(LatestMtime(SelectSeq(DirOrder, LAMBDA f : dir[f] # NoFile), dir, 0))

\* generateCorpusVersion over directory dir when fs.readdir and every
\* fs.stat resolve: 'empty', or `${supportedFiles.length}-${latestMtime}`
CorpusVersionOf(dir) ==
    IF Len(Listing(dir)) = 0 THEN EmptyToken
    ELSE Digits(Len(Listing(dir))) \o <<"-">> \o Digits(LatestMtime(Listing(dir), dir, 0))

\* the values generateCorpusVersion may return: the version of the
\* directory, or the error token when a call on the file system rejects
CorpusVersions(dir) == {CorpusVersionOf(dir), ErrorToken}

\* the documents of the corpus source: the supported files and their times
DocSet(dir) == [f \in {g \in FileNames : isSupported(g)} |-> dir[f]]

UnusedBuild == [pc |-> "unused", listing |-> <<>>, pos |-> 0, index |-> <<>>,
                skipped |-> {}]

NewBuild == [UnusedBuild EXCEPT !.pc = "readdir"]

\* A request that is not being handled. Of a request being handled: the
\* route, the position, the build awaited, where its documents come from
\* (source) and the array it holds (docs: the array of a build, rows: the
\* rows the database returned), the token of its cache lookup, its query,
\* the documents Stage A was called with (sent) and selectedDocs
IdleHandler == [kind |-> "none", pc |-> "idle", build |-> NoBuild, source |-> "none",
                docs |-> NoBuild, rows |-> <<>>, token |-> NullVersion, query |-> <<>>,
                sent |-> <<>>, selectedDocs |-> <<>>]

NoRead == [none |-> TRUE]

\* The one query of the requests that read the index.
IndexQuery == <<"a">>

InitIndex ==
    /\ fs = [f \in FileNames |-> IF isSupported(f) THEN NoFile ELSE 1]
    /\ fsClock = 0
    /\ documentIndex = NoBuild
    /\ corpusVersion = NullVersion
    \* buildDocumentIndex() is called when the module is loaded
    /\ builds = [b \in Builds |-> IF b = 1 THEN NewBuild ELSE UnusedBuild]
    /\ handlers = [h \in Handlers |-> IdleHandler]
    /\ lastRead = NoRead

\* ---- the corpus source changes ----

\* a supported file is written (added or edited): its time is the present
WriteFile(f) ==
    /\ isSupported(f)
    /\ fsClock < MaxMtime
    /\ fsClock' = fsClock + 1
    /\ fs' = [fs EXCEPT ![f] = fsClock + 1]
    /\ UNCHANGED <<documentIndex, corpusVersion, builds, handlers, lastRead, rateVars, serverVars, cacheVars, pipeVars>>

\* a supported file is moved or copied in (or replaced) with its old
\* modification time kept
RestoreFile(f, mtime) ==
    /\ isSupported(f)
    /\ mtime \in 1..fsClock
    /\ fs[f] # mtime
    /\ fs' = [fs EXCEPT ![f] = mtime]
    /\ UNCHANGED <<fsClock, documentIndex, corpusVersion, builds, handlers, lastRead, rateVars, serverVars, cacheVars, pipeVars>>

RemoveFile(f) ==
    /\ isSupported(f)
    /\ fs[f] # NoFile
    /\ fs' = [fs EXCEPT ![f] = NoFile]
    /\ UNCHANGED <<fsClock, documentIndex, corpusVersion, builds, handlers, lastRead, rateVars, serverVars, cacheVars, pipeVars>>

\* ---- buildDocumentIndex ----

HasUnusedBuild == \E b \in Builds : builds[b].pc = "unused"

FirstUnusedBuild == CHOOSE b \in Builds :
    builds[b].pc = "unused" /\ \A c \in Builds : builds[c].pc = "unused" => b <= c

\* the array a reference stands for ([] for no array)
ArrayOf(ref) == IF ref = NoBuild THEN <<>> ELSE builds[ref].index

\* The array of a call that has returned is garbage once neither
\* documentIndex nor a handler refers to it: its place is free again.
Collect(bs, installed, hs) ==
    [b \in Builds |->
        IF /\ bs[b].pc = "done"
           /\ installed # b
           /\ \A h \in Handlers : hs[h].docs # b /\ hs[h].build # b
        THEN UnusedBuild
        ELSE bs[b]]

\* fs.readdir resolves: the supported files are listed; with none to
\* extract the index is installed at once
BuildReaddir(b) ==
    /\ builds[b].pc = "readdir"
    /\ UNCHANGED <<fs, fsClock, corpusVersion, handlers, lastRead, rateVars, serverVars, cacheVars, pipeVars>>
    /\ LET listing == Listing(fs)
       IN  IF Len(listing) = 0
           THEN /\ documentIndex' = b
                /\ builds' = Collect([builds EXCEPT ![b].pc = "fingerprint"], b, handlers)
           ELSE /\ UNCHANGED documentIndex
                /\ builds' = [builds EXCEPT ![b].pc = "extract", ![b].listing = listing,
                                            ![b].pos = 1]

\* fs.readdir rejects (the directory cannot be read): the build returns []
\* and installs nothing
BuildReaddirFails(b) ==
    /\ builds[b].pc = "readdir"
    /\ builds' = Collect([builds EXCEPT ![b].pc = "done"], documentIndex, handlers)
    /\ UNCHANGED <<fs, fsClock, documentIndex, corpusVersion, handlers, lastRead, rateVars, serverVars, cacheVars, pipeVars>>

\* extractContent of the next file listed resolves or rejects; after the
\* last file the local array is installed. With publish the array is
\* installed while it is being filled; with byListing a record is numbered
\* by the place of its file in the listing.
BuildExtractWith(b, publish, byListing) ==
    /\ builds[b].pc = "extract"
    /\ UNCHANGED <<fs, fsClock, corpusVersion, handlers, lastRead, rateVars, serverVars, cacheVars, pipeVars>>
    /\ LET f == builds[b].listing[builds[b].pos]
           last == builds[b].pos = Len(builds[b].listing)
           pushed == Append(builds[b].index,
                            [id |-> IF byListing THEN builds[b].pos
                                    ELSE Len(builds[b].index) + 1,
                             filename |-> f, filetype |-> Filetype(f), content |-> fs[f]])
       IN  /\ documentIndex' = IF last \/ publish THEN b ELSE documentIndex
           /\ \/ /\ fs[f] # NoFile
                 /\ builds' = Collect([builds EXCEPT ![b].index = pushed,
                                          ![b].pos = IF last THEN 0 ELSE @ + 1,
                                          ![b].pc = IF last THEN "fingerprint" ELSE "extract"],
                                      documentIndex', handlers)
              \/ \* the file is gone or malformed: it is skipped
                 /\ builds' = Collect([builds EXCEPT ![b].skipped = @ \cup {f},
                                          ![b].pos = IF last THEN 0 ELSE @ + 1,
                                          ![b].pc = IF last THEN "fingerprint" ELSE "extract"],
                                      documentIndex', handlers)

BuildExtractPublishing(b) == BuildExtractWith(b, TRUE, FALSE)

BuildExtractNumberingByListing(b) == BuildExtractWith(b, FALSE, TRUE)

BuildExtract(b) == BuildExtractWith(b, FALSE, FALSE)

\* the awaited generateCorpusVersion returns: the build assigns
\* corpusVersion and returns
BuildFingerprint(b) ==
    /\ builds[b].pc = "fingerprint"
    /\ corpusVersion' \in CorpusVersions(fs)
    /\ builds' = Collect([builds EXCEPT ![b].pc = "done"], documentIndex, handlers)
    /\ UNCHANGED <<fs, fsClock, documentIndex, handlers, lastRead, rateVars, serverVars, cacheVars, pipeVars>>

\* ---- the handlers that read the index ----

\* POST /index/rebuild emptying the installed array (documentIndex.length
\* = 0) before it drops it
RebuildArrivesInPlace ==
    /\ HasUnusedBuild
    /\ documentIndex' = NoBuild
    /\ corpusVersion' = NullVersion
    /\ builds' = Collect([b \in Builds |->
                             IF b = FirstUnusedBuild THEN NewBuild
                             ELSE IF b = documentIndex THEN [builds[b] EXCEPT !.index = <<>>]
                             ELSE builds[b]],
                         NoBuild, handlers)
    /\ UNCHANGED <<fs, fsClock, handlers, lastRead, rateVars, serverVars, cacheVars, pipeVars>>

\* POST /index/rebuild arrives: invalidateDocumentIndex, then
\* buildDocumentIndex is called; the handler only responds when it returns
RebuildArrives ==
    /\ HasUnusedBuild
    /\ documentIndex' = NoBuild
    /\ corpusVersion' = NullVersion
    /\ builds' = Collect([builds EXCEPT ![FirstUnusedBuild] = NewBuild], NoBuild, handlers)
    /\ UNCHANGED <<fs, fsClock, handlers, lastRead, rateVars, serverVars, cacheVars, pipeVars>>

\* getIndexedDocuments() called by the request req of handler h: an absent
\* index is rebuilt, and the call returns the array documentIndex refers to
getIndexedDocuments(h, req) ==
    IF documentIndex = NoBuild
    THEN /\ HasUnusedBuild
         /\ builds' = [builds EXCEPT ![FirstUnusedBuild] = NewBuild]
         /\ handlers' = [handlers EXCEPT ![h] = [req EXCEPT !.pc = "awaitBuild",
                                                            !.build = FirstUnusedBuild]]
    ELSE /\ handlers' = [handlers EXCEPT ![h] = [req EXCEPT !.pc = "haveDocs",
                                                            !.source = "index",
                                                            !.docs = documentIndex]]
         /\ UNCHANGED builds

\* POST /search or GET /documents arrives (a search request has passed the
\* admission controller and the validation of its query) and awaits
\* getDocumentsWithFallback: the database is unavailable or empty, so
\* getIndexedDocuments is called; an absent index is rebuilt
GetIndexedDocuments(h, kind) ==
    /\ handlers[h].pc = "idle"
    /\ getIndexedDocuments(h, [handlers[h] EXCEPT !.kind = kind, !.query = IndexQuery])
    /\ UNCHANGED <<fs, fsClock, documentIndex, corpusVersion, lastRead, rateVars, serverVars, cacheVars, pipeVars>>

\* the awaited buildDocumentIndex has returned: getIndexedDocuments
\* returns documentIndex || []
BuildAwaited(h) ==
    /\ handlers[h].pc = "awaitBuild"
    /\ builds[handlers[h].build].pc = "done"
    /\ handlers' = [handlers EXCEPT ![h].pc = "haveDocs", ![h].source = "index",
                                    ![h].docs = documentIndex, ![h].build = NoBuild]
    /\ builds' = Collect(builds, documentIndex, handlers')
    /\ UNCHANGED <<fs, fsClock, documentIndex, corpusVersion, lastRead, rateVars, serverVars, cacheVars, pipeVars>>

\* the documents the request holds
Documents(h) ==
    IF handlers[h].source = "db" THEN handlers[h].rows ELSE ArrayOf(handlers[h].docs)

\* the handler responds and ends
Responds(h) ==
    /\ handlers' = [handlers EXCEPT ![h] = IdleHandler]
    /\ builds' = Collect(builds, documentIndex, handlers')

\* GET /documents responds with the documents it holds
DocumentsRespond(h) ==
    /\ handlers[h].pc = "haveDocs"
    /\ handlers[h].kind = "documents"
    /\ Responds(h)
    /\ UNCHANGED <<fs, fsClock, documentIndex, corpusVersion, lastRead, rateVars, serverVars, cacheVars, pipeVars>>

\* POST /search, no document: the fixed message is the response
SearchNoDocuments(h) ==
    /\ handlers[h].pc = "haveDocs"
    /\ handlers[h].kind = "search"
    /\ Len(Documents(h)) = 0
    /\ Responds(h)
    /\ UNCHANGED <<fs, fsClock, documentIndex, corpusVersion, lastRead, rateVars, serverVars, cacheVars, pipeVars>>

\* POST /search calling searchDocuments whatever cache.get returns
CacheLookupIgnoringHit(h, token) ==
    /\ CacheGetUpdate(handlers[h].query, token)
    /\ lastRead' = [docs |-> DocSet(fs), token |-> token]
    /\ handlers' = [handlers EXCEPT ![h].pc = "stageA", ![h].token = token,
                                    ![h].sent = Documents(h)]
    /\ UNCHANGED builds

\* cache.get(trimmedQuery, currentCorpusVersion): a hit is the response; on
\* a miss searchDocuments maps the documents to docsWithPreviews and the
\* handler is suspended in selectRelevantDocuments
CacheLookup(h, token) ==
    /\ CacheGetUpdate(handlers[h].query, token)
    /\ lastRead' = [docs |-> DocSet(fs), token |-> token]
    /\ IF MapHas(cache, getKey(handlers[h].query, token))
       THEN Responds(h)
       ELSE /\ handlers' = [handlers EXCEPT ![h].pc = "stageA", ![h].token = token,
                                            ![h].sent = Documents(h)]
            /\ UNCHANGED builds

\* POST /search with documents: currentCorpusVersion is the cached
\* corpusVersion when there is one
SearchCachedVersion(h) ==
    /\ handlers[h].pc = "haveDocs"
    /\ handlers[h].kind = "search"
    /\ Len(Documents(h)) # 0
    /\ corpusVersion # NullVersion
    /\ UNCHANGED <<fs, fsClock, documentIndex, corpusVersion, rateVars, serverVars, pipeVars>>
    /\ CacheLookup(h, corpusVersion)

\* ... and otherwise generateCorpusVersion is awaited
SearchAwaitsVersion(h) ==
    /\ handlers[h].pc = "haveDocs"
    /\ handlers[h].kind = "search"
    /\ Len(Documents(h)) # 0
    /\ corpusVersion = NullVersion
    /\ handlers' = [handlers EXCEPT ![h].pc = "fingerprint"]
    /\ UNCHANGED <<fs, fsClock, documentIndex, corpusVersion, builds, lastRead, rateVars, serverVars, cacheVars, pipeVars>>

\* generateCorpusVersion returns: the token is the one computed
SearchComputedVersion(h) ==
    /\ handlers[h].pc = "fingerprint"
    /\ UNCHANGED <<fs, fsClock, documentIndex, corpusVersion, rateVars, serverVars, pipeVars>>
    /\ \E token \in CorpusVersions(fs) : CacheLookup(h, token)

\* selectRelevantDocuments resolves (here with every filename it was
\* sent): selectedDocs is documents.filter(...) over the array the request
\* holds, and the handler is suspended in generateAnswer
SearchStageAReturns(h) ==
    /\ handlers[h].pc = "stageA"
    /\ LET selectedFilenames ==
               {handlers[h].sent[i].filename : i \in 1..Len(handlers[h].sent)}
       IN  handlers' = [handlers EXCEPT ![h].pc = "stageB",
                          ![h].selectedDocs =
                              SelectSeq(Documents(h),
                                        LAMBDA doc : doc.filename \in selectedFilenames)]
    /\ UNCHANGED <<fs, fsClock, documentIndex, corpusVersion, builds, lastRead, rateVars,
                   serverVars, cacheVars, pipeVars>>

\* generateAnswer and searchDocuments resolve: the result is cached under
\* the token read before the pipeline ran, and is the response
SearchPipelineReturns(h) ==
    /\ handlers[h].pc = "stageB"
    /\ CacheSetUpdate(handlers[h].query, handlers[h].token,
                      [answer |-> handlers[h].selectedDocs, sources |-> <<>>,
                       documentsSelected |-> Len(handlers[h].selectedDocs)])
    /\ UNCHANGED <<fs, fsClock, documentIndex, corpusVersion, lastRead, rateVars, serverVars, pipeVars>>
    /\ Responds(h)

\* searchDocuments rejects (the key is not configured, or generateAnswer
\* has thrown): the error is the response
SearchPipelineThrows(h) ==
    /\ handlers[h].pc \in {"stageA", "stageB"}
    /\ UNCHANGED <<fs, fsClock, documentIndex, corpusVersion, lastRead, rateVars, serverVars, cacheVars, pipeVars>>
    /\ Responds(h)

\* The corpus source changes.
CorpusChanges ==
    \/ \E f \in FileNames : WriteFile(f)
    \/ \E f \in FileNames, m \in 1..MaxMtime : RestoreFile(f, m)
    \/ \E f \in FileNames : RemoveFile(f)

\* A call of buildDocumentIndex takes a step.
BuildSteps ==
    \/ \E b \in Builds : BuildReaddir(b)
    \/ \E b \in Builds : BuildReaddirFails(b)
    \/ \E b \in Builds : BuildExtract(b)
    \/ \E b \in Builds : BuildFingerprint(b)

\* The index under rebuilds, with GET /documents as its reader.
NextIndex ==
    \/ CorpusChanges
    \/ BuildSteps
    \/ RebuildArrives
    \/ \E h \in Handlers : GetIndexedDocuments(h, "documents")
    \/ \E h \in Handlers : BuildAwaited(h)
    \/ \E h \in Handlers : DocumentsRespond(h)

\* The index and the response cache, with POST /search as the reader, for
\* a server that receives no POST /index/rebuild and no POST /ingest.
NextSearchIndex ==
    \/ CorpusChanges
    \/ BuildSteps
    \/ \E h \in Handlers : GetIndexedDocuments(h, "search")
    \/ \E h \in Handlers : BuildAwaited(h)
    \/ \E h \in Handlers : SearchNoDocuments(h)
    \/ \E h \in Handlers : SearchCachedVersion(h)
    \/ \E h \in Handlers : SearchAwaitsVersion(h)
    \/ \E h \in Handlers : SearchComputedVersion(h)
    \/ \E h \in Handlers : SearchStageAReturns(h)
    \/ \E h \in Handlers : SearchPipelineReturns(h)
    \/ \E h \in Handlers : SearchPipelineThrows(h)

(***************************************************************************)
(* POST /search, POST /ingest and POST /index/rebuild over the documents   *)
(* table, the document index and the response cache                        *)
(***************************************************************************)

MAX_QUERY_LENGTH == 2000

\* req.body.query: absent, a number (its digits), or a string
NoQuery == [type |-> "undefined", value |-> <<>>]

NumberQuery(digits) == [type |-> "number", value |-> digits]

StringQuery(chars) == [type |-> "string", value |-> chars]

Repeat(c, n) == [i \in 1..n |-> c]

\* The bodies POST /search receives: no query, 42, "", "  ", 2001
\* characters, and " a".
RequestQueries ==
    { NoQuery, NumberQuery(<<"4", "2">>), StringQuery(<<>>),
      StringQuery(<<" ", " ">>), StringQuery(Repeat("a", MAX_QUERY_LENGTH + 1)),
      StringQuery(<<" ">> \o IndexQuery) }

\* !query
Falsy(query) ==
    \/ query.type = "undefined"
    \/ query.type = "number" /\ query.value = <<"0">>
    \/ query.type = "string" /\ Len(query.value) = 0

\* the validation of POST /search without the test of query.trim()
ValidateQueryUntrimmed(query) ==
    IF Falsy(query) \/ query.type # "string"
    THEN [status |-> 400, error |-> "Invalid query"]
    ELSE IF Len(query.value) > MAX_QUERY_LENGTH
         THEN [status |-> 400, error |-> "Query too long"]
         ELSE [status |-> 200, error |-> ""]

\* the validation of POST /search: the response that rejects the query, or
\* status 200 when the handler goes on
ValidateQuery(query) ==
    IF Falsy(query) \/ query.type # "string" \/ Len(Trim(query.value)) = 0
    THEN [status |-> 400, error |-> "Invalid query"]
    ELSE IF Len(query.value) > MAX_QUERY_LENGTH
         THEN [status |-> 400, error |-> "Query too long"]
         ELSE [status |-> 200, error |-> ""]

NoRejection == [query |-> NoQuery, status |-> 0, error |-> ""]

\* no exported text function was called yet
NoCall == [fn |-> "none", query |-> <<>>, documents |-> <<>>, windowSize |-> 0,
           maxDocs |-> 0, maxChars |-> 0, result |-> <<>>]

IdleIngest == [pc |-> "idle", listing |-> <<>>, pos |-> 0, success |-> 0, failed |-> 0,
               status |-> 0]

InitServer ==
    /\ db = <<>>
    /\ ingest = IdleIngest
    /\ lastRejected = NoRejection
    /\ textCall = NoCall

\* ---- POST /search up to its documents ----

\* POST /search arrives and has passed the admission controller: its query
\* is validated, and getDocumentsWithFallback awaits getAllDocuments
SearchArrives(h, query) ==
    /\ handlers[h].pc = "idle"
    /\ LET v == ValidateQuery(query)
       IN  IF v.status # 200
           THEN /\ lastRejected' = [query |-> query, status |-> v.status, error |-> v.error]
                /\ UNCHANGED handlers
           ELSE /\ handlers' = [handlers EXCEPT ![h].kind = "search", ![h].pc = "awaitDb",
                                                ![h].query = Trim(query.value)]
                /\ UNCHANGED lastRejected
    /\ UNCHANGED <<fs, fsClock, documentIndex, corpusVersion, builds, lastRead, db, ingest,
                   textCall,
                   rateVars, cacheVars, pipeVars>>

\* SELECT id, filename, filetype, content FROM documents ORDER BY filename
\* (DirOrder is in the order of the names)
getAllDocuments(rows) ==
    LET names == SelectSeq(DirOrder, LAMBDA f : \E i \in 1..Len(rows) : rows[i].filename = f)
    IN  [i \in 1..Len(names) |-> rows[CHOOSE j \in 1..Len(rows) : rows[j].filename = names[i]]]

\* `db-${docs.length}-${Date.now()}`
DbToken(n) == <<"d", "b", "-">> \o Digits(n) \o <<"-">> \o Digits(now)

\* getAllDocuments resolves with rows: they are the documents of the
\* request, and corpusVersion is set when it is not
DatabaseReturns(h) ==
    /\ handlers[h].pc = "awaitDb"
    /\ Len(db) > 0
    /\ handlers' = [handlers EXCEPT ![h].pc = "haveDocs", ![h].source = "db",
                                    ![h].rows = getAllDocuments(db)]
    /\ corpusVersion' = IF corpusVersion = NullVersion THEN DbToken(Len(db))
                        ELSE corpusVersion
    /\ UNCHANGED <<fs, fsClock, documentIndex, builds, lastRead, serverVars, rateVars,
                   cacheVars, pipeVars>>

\* getAllDocuments resolves with no row, or rejects: getIndexedDocuments is
\* called
DatabaseFallsBack(h) ==
    /\ handlers[h].pc = "awaitDb"
    /\ getIndexedDocuments(h, handlers[h])
    /\ UNCHANGED <<fs, fsClock, documentIndex, corpusVersion, lastRead, serverVars, rateVars,
                   cacheVars, pipeVars>>

\* ---- POST /ingest ----

\* POST /ingest arrives: ingestDocuments(true) awaits fs.readdir
IngestArrives ==
    /\ ingest.pc = "idle"
    /\ ingest' = [IdleIngest EXCEPT !.pc = "readdir"]
    /\ UNCHANGED <<db, lastRejected, textCall, rateVars, cacheVars, indexVars, pipeVars>>

\* POST /ingest answering without getCache().clear()
IngestCompletesKeepingCache(success, failed) ==
    /\ documentIndex' = NoBuild
    /\ corpusVersion' = NullVersion
    /\ builds' = Collect(builds, NoBuild, handlers)
    /\ UNCHANGED cacheVars
    /\ ingest' = [IdleIngest EXCEPT !.status = 200, !.success = success, !.failed = failed]

\* ingestDocuments has returned: invalidateDocumentIndex, getCache().clear()
\* and the response
IngestCompletes(success, failed) ==
    /\ documentIndex' = NoBuild
    /\ corpusVersion' = NullVersion
    /\ builds' = Collect(builds, NoBuild, handlers)
    /\ CacheClearUpdate
    /\ ingest' = [IdleIngest EXCEPT !.status = 200, !.success = success, !.failed = failed]

\* ingestDocuments has thrown: the catch block answers 500
IngestFails ==
    /\ ingest' = [IdleIngest EXCEPT !.status = 500]
    /\ UNCHANGED <<documentIndex, corpusVersion, builds, cacheVars>>

\* fs.readdir resolves (or rejects with ENOENT: there is no directory and
\* no file): with no supported file ingestDocuments returns at once, the
\* table as it is
IngestReaddir ==
    /\ ingest.pc = "readdir"
    /\ IF Len(Listing(fs)) = 0
       THEN IngestCompletes(0, 0)
       ELSE /\ ingest' = [ingest EXCEPT !.pc = "clear", !.listing = Listing(fs)]
            /\ UNCHANGED <<documentIndex, corpusVersion, builds, cacheVars>>
    /\ UNCHANGED <<fs, fsClock, handlers, lastRead, db, lastRejected, textCall, rateVars, pipeVars>>

\* fs.readdir rejects with another error
IngestReaddirFails ==
    /\ ingest.pc = "readdir"
    /\ IngestFails
    /\ UNCHANGED <<fs, fsClock, handlers, lastRead, db, lastRejected, textCall, rateVars, pipeVars>>

\* TRUNCATE TABLE documents
IngestClear ==
    /\ ingest.pc = "clear"
    /\ db' = <<>>
    /\ ingest' = [ingest EXCEPT !.pc = "files", !.pos = 1]
    /\ UNCHANGED <<lastRejected, textCall, rateVars, cacheVars, indexVars, pipeVars>>

\* ... is rejected by the database
IngestClearFails ==
    /\ ingest.pc = "clear"
    /\ IngestFails
    /\ UNCHANGED <<fs, fsClock, handlers, lastRead, db, lastRejected, textCall, rateVars, pipeVars>>

\* the next file: extractContent and insertDocument resolve, or one of them
\* rejects and the file is counted as failed; ingestDocuments returns after
\* the last file
IngestFile ==
    /\ ingest.pc = "files"
    /\ LET f == ingest.listing[ingest.pos]
           last == ingest.pos = Len(ingest.listing)
       IN  \E ok \in {b \in BOOLEAN : b => fs[f] # NoFile} :
              /\ db' = IF ok
                       THEN Append(db, [id |-> Len(db) + 1, filename |-> f,
                                        filetype |-> Filetype(f), content |-> fs[f]])
                       ELSE db
              /\ LET success == ingest.success + (IF ok THEN 1 ELSE 0)
                     failed == ingest.failed + (IF ok THEN 0 ELSE 1)
                 IN  IF last
                     THEN IngestCompletes(success, failed)
                     ELSE /\ ingest' = [ingest EXCEPT !.pos = @ + 1, !.success = success,
                                                      !.failed = failed]
                          /\ UNCHANGED <<documentIndex, corpusVersion, builds, cacheVars>>
    /\ UNCHANGED <<fs, fsClock, handlers, lastRead, lastRejected, textCall, rateVars, pipeVars>>

\* A run of POST /ingest takes a step.
IngestSteps ==
    \/ IngestArrives
    \/ IngestReaddir
    \/ IngestReaddirFails
    \/ IngestClear
    \/ IngestClearFails
    \/ IngestFile

\* POST /ingest while the documents directory changes and the index is
\* built
NextIngest ==
    \/ CorpusChanges
    \/ BuildSteps
    \/ IngestSteps

\* POST /search over the index while POST /index/rebuild is received and
\* a.txt is removed and put back
NextSnapshot ==
    \/ \E f \in {"a.txt"} : RestoreFile(f, 1)
    \/ \E f \in {"a.txt"} : RemoveFile(f)
    \/ BuildSteps
    \/ RebuildArrives
    \/ \E h \in Handlers : GetIndexedDocuments(h, "search")
    \/ \E h \in Handlers : BuildAwaited(h)
    \/ \E h \in Handlers : SearchNoDocuments(h)
    \/ \E h \in Handlers : SearchCachedVersion(h)
    \/ \E h \in Handlers : SearchAwaitsVersion(h)
    \/ \E h \in Handlers : SearchComputedVersion(h)
    \/ \E h \in Handlers : SearchStageAReturns(h)
    \/ \E h \in Handlers : SearchPipelineReturns(h)
    \/ \E h \in Handlers : SearchPipelineThrows(h)

\* POST /search with any query, over the database and the index
NextSearch ==
    \/ BuildSteps
    \/ \E h \in Handlers, q \in RequestQueries : SearchArrives(h, q)
    \/ \E h \in Handlers : DatabaseReturns(h)
    \/ \E h \in Handlers : DatabaseFallsBack(h)
    \/ \E h \in Handlers : BuildAwaited(h)
    \/ \E h \in Handlers : SearchNoDocuments(h)
    \/ \E h \in Handlers : SearchCachedVersion(h)
    \/ \E h \in Handlers : SearchAwaitsVersion(h)
    \/ \E h \in Handlers : SearchComputedVersion(h)
    \/ \E h \in Handlers : SearchStageAReturns(h)
    \/ \E h \in Handlers : SearchPipelineReturns(h)
    \/ \E h \in Handlers : SearchPipelineThrows(h)

\* ---- POST /search from its arrival ----

\* a variant of the handler that validates the query before it calls
\* checkRateLimit
PostSearchValidatingFirst(h, ip, query) ==
    LET r == checkRateLimit(rateLimitStore, ip, now)
        v == ValidateQuery(query)
    IN  /\ handlers[h].pc = "idle"
        /\ IF v.status # 200
           THEN /\ lastRejected' = [query |-> query, status |-> v.status, error |-> v.error]
                /\ UNCHANGED <<handlers, rateLimitStore, lastResult, admitted, retryDue>>
           ELSE /\ rateLimitStore' = r.store
                /\ lastResult' = r.result
                /\ UNCHANGED lastRejected
                /\ IF ~r.result.allowed
                   THEN /\ retryDue' = [retryDue EXCEPT ![ip] =
                                           StillPending(@, now)
                                               \cup {Rejection(now, r.result.retryAfter)}]
                        /\ UNCHANGED <<admitted, handlers>>
                   ELSE /\ admitted' = [admitted EXCEPT ![ip][now] = @ + 1]
                        /\ retryDue' = [retryDue EXCEPT ![ip] =
                                           {[e EXCEPT !.clean = FALSE]
                                               : e \in StillPending(@, now)}]
                        /\ handlers' = [handlers EXCEPT ![h].kind = "search",
                                                        ![h].pc = "awaitDb",
                                                        ![h].query = Trim(query.value)]
        /\ UNCHANGED <<now, inflight, fs, fsClock, documentIndex, corpusVersion, builds,
                       lastRead, db, ingest, textCall, cacheVars, pipeVars>>

\* POST /search arrives from ip with a query, up to its first await:
\* checkRateLimit answers 429 or records the request, then the query is
\* validated and answered 400 or getDocumentsWithFallback awaits
\* getAllDocuments
PostSearch(h, ip, query) ==
    LET r == checkRateLimit(rateLimitStore, ip, now)
        v == ValidateQuery(query)
    IN  /\ handlers[h].pc = "idle"
        /\ rateLimitStore' = r.store
        /\ lastResult' = r.result
        /\ IF ~r.result.allowed
           THEN /\ retryDue' = [retryDue EXCEPT ![ip] =
                                   StillPending(@, now)
                                       \cup {Rejection(now, r.result.retryAfter)}]
                /\ UNCHANGED <<admitted, handlers, lastRejected>>
           ELSE /\ admitted' = [admitted EXCEPT ![ip][now] = @ + 1]
                /\ retryDue' = [retryDue EXCEPT ![ip] =
                                   {[e EXCEPT !.clean = FALSE] : e \in StillPending(@, now)}]
                /\ IF v.status # 200
                   THEN /\ lastRejected' = [query |-> query, status |-> v.status,
                                            error |-> v.error]
                        /\ UNCHANGED handlers
                   ELSE /\ handlers' = [handlers EXCEPT ![h].kind = "search",
                                                        ![h].pc = "awaitDb",
                                                        ![h].query = Trim(query.value)]
                        /\ UNCHANGED lastRejected
        /\ UNCHANGED <<now, inflight, fs, fsClock, documentIndex, corpusVersion, builds,
                       lastRead, db, ingest, textCall, cacheVars, pipeVars>>

\* POST /search from any client with any query, the requests of one instant
NextAdmission ==
    \/ BuildSteps
    \/ \E h \in Handlers, ip \in Clients, q \in RequestQueries : PostSearch(h, ip, q)
    \/ \E h \in Handlers : DatabaseReturns(h)
    \/ \E h \in Handlers : DatabaseFallsBack(h)
    \/ \E h \in Handlers : BuildAwaited(h)
    \/ \E h \in Handlers : SearchNoDocuments(h)
    \/ \E h \in Handlers : SearchCachedVersion(h)
    \/ \E h \in Handlers : SearchAwaitsVersion(h)
    \/ \E h \in Handlers : SearchComputedVersion(h)
    \/ \E h \in Handlers : SearchStageAReturns(h)
    \/ \E h \in Handlers : SearchPipelineReturns(h)
    \/ \E h \in Handlers : SearchPipelineThrows(h)

(***************************************************************************)
(* Relevance scorer, window extractor and context packer                   *)
(***************************************************************************)

\* The element of a one-element set. The({e : x \in {v}}) is e with x bound
\* to the value of v (const x = v).
The(S) == CHOOSE r \in S : TRUE

\* the array s with its elements evaluated
Array(s) == s \o <<>>

Min(a, b) == IF a < b THEN a ELSE b

Max(a, b) == IF a > b THEN a ELSE b

\* the characters that are neither whitespace, nor \W, nor "_"
WordChars ==
    {"a", "b", "c", "d", "e", "f", "g", "o", "t", "x", "A", "B", "C", "D",
     "0", "1", "2", "3", "4", "5", "6", "7", "8", "9"}

\* s.split(/[\s\W_]+/), without the empty strings (cur is the word being read)
RECURSIVE SplitWords(_, _)
SplitWords(s, cur) ==
    IF s = <<>> THEN (IF cur = <<>> THEN <<>> ELSE <<cur>>)
    ELSE IF Head(s) \in WordChars THEN SplitWords(Tail(s), Append(cur, Head(s)))
    ELSE (IF cur = <<>> THEN <<>> ELSE <<cur>>) \o SplitWords(Tail(s), <<>>)

\* query.toLowerCase().split(/[\s\W_]+/).filter(token => token.length > 2)
QueryTokens(query) ==
    SelectSeq(SplitWords(ToLowerCase(query), <<>>), LAMBDA t : Len(t) > 2)

\* t occurs in s at the 1-based place i
OccursAt(t, s, i) == i + Len(t) - 1 <= Len(s) /\ SubSeq(s, i, i + Len(t) - 1) = t

\* (s.match(new RegExp(t, 'g')) || []).length from place i on: the matches
\* of a global regular expression do not overlap
RECURSIVE CountMatches(_, _, _)
CountMatches(t, s, i) ==
    IF i + Len(t) - 1 > Len(s) THEN 0
    ELSE IF OccursAt(t, s, i) THEN 1 + CountMatches(t, s, i + Len(t))
    ELSE CountMatches(t, s, i + 1)

\* a variant of the score that weighs a match in the filename as one in
\* the content
RECURSIVE RawScoreWeighingAlike(_, _)
RawScoreWeighingAlike(tokens, doc) ==
    IF tokens = <<>> THEN 0
    ELSE 2 * CountMatches(Head(tokens), ToLowerCase(doc.content), 1)
         + 2 * CountMatches(Head(tokens), ToLowerCase(doc.filename), 1)
         + RawScoreWeighingAlike(Tail(tokens), doc)

\* score: for every token, 2 for every match in the content and 5 for every
\* match in the filename
RECURSIVE RawScore(_, _)
RawScore(tokens, doc) ==
    IF tokens = <<>> THEN 0
    ELSE 2 * CountMatches(Head(tokens), ToLowerCase(doc.content), 1)
         + 5 * CountMatches(Head(tokens), ToLowerCase(doc.filename), 1)
         + RawScore(Tail(tokens), doc)

\* matchPositions sorted: every 0-based offset at which a token occurs, once
\* for every token that occurs there (the indexOf loop finds overlapping
\* occurrences too)
RECURSIVE MatchPositions(_, _, _)
MatchPositions(tokens, s, i) ==
    IF i > Len(s) THEN <<>>
    ELSE [k \in 1..Cardinality({j \in 1..Len(tokens) : OccursAt(tokens[j], s, i)}) |-> i - 1]
         \o MatchPositions(tokens, s, i + 1)

\* relevanceScore is score / Math.sqrt(length || 1): kept as the pair of the
\* score and the length, and compared exactly
Relevance(score, content) ==
    [score |-> score, length |-> IF Len(content) = 0 THEN 1 ELSE Len(content)]

\* b.relevanceScore - a.relevanceScore > 0 : b ranks strictly before a
RanksBefore(b, a) ==
    b.relevanceScore.score * b.relevanceScore.score * a.relevanceScore.length
        > a.relevanceScore.score * a.relevanceScore.score * b.relevanceScore.length

\* Array.prototype.sort with (a, b) => b.relevanceScore - a.relevanceScore.
\* The sort is stable: docs[j] is placed before docs[i] when it ranks
\* strictly before it, or when neither ranks before the other and j < i.
SortRanked(docs) ==
    LET Place(i) ==
            1 + Cardinality({j \in 1..Len(docs) :
                    \/ RanksBefore(docs[j], docs[i])
                    \/ j < i /\ ~RanksBefore(docs[i], docs[j])})
    IN  [r \in 1..Len(docs) |-> docs[CHOOSE i \in 1..Len(docs) : Place(i) = r]]

\* scoreDocumentsByKeywords(query, documents)
scoreDocumentsByKeywords(query, documents) ==
    The({ IF Len(queryTokens) = 0
          THEN [i \in 1..Len(documents) |->
                  [filename |-> documents[i].filename, filetype |-> documents[i].filetype,
                   content |-> documents[i].content,
                   relevanceScore |-> [score |-> 0, length |-> 1],
                   matchPositions |-> <<>>]]
          ELSE The({ Array(SortRanked(scoredDocs)) :
                     scoredDocs \in {Array([i \in 1..Len(documents) |->
                        [filename |-> documents[i].filename,
                         filetype |-> documents[i].filetype,
                         content |-> documents[i].content,
                         relevanceScore |-> Relevance(RawScore(queryTokens, documents[i]),
                                                      documents[i].content),
                         matchPositions |-> MatchPositions(queryTokens,
                                                ToLowerCase(documents[i].content), 1)]])} })
          : queryTokens \in {QueryTokens(query)} })

\* String.prototype.substring(a, b) for 0 <= a <= b
Substring(s, a, b) == SubSeq(s, a + 1, Min(b, Len(s)))

Ellipsis == <<".", ".", ".">>

\* the matches counted from positions[i]: itself and the positions that
\* follow it up to the first one beyond positions[i] + windowSize
MatchesInWindow(positions, i, windowSize) ==
    1 + Cardinality({j \in (i + 1)..Len(positions) :
            \A k \in (i + 1)..j : positions[k] <= positions[i] + windowSize})

\* a variant of the loop that keeps the latest of the positions whose
\* window holds the most matches (count >= maxMatchesInWindow)
LatestBestPosition(positions, windowSize) ==
    CHOOSE i \in 1..Len(positions) :
        /\ \A j \in 1..Len(positions) :
              MatchesInWindow(positions, j, windowSize)
                  <= MatchesInWindow(positions, i, windowSize)
        /\ \A j \in (i + 1)..Len(positions) :
              MatchesInWindow(positions, j, windowSize)
                  < MatchesInWindow(positions, i, windowSize)

\* the loop over matchPositions: the index of bestStart, the earliest
\* position whose window holds the most matches (count > maxMatchesInWindow)
BestPosition(positions, windowSize) ==
    CHOOSE i \in 1..Len(positions) :
        /\ \A j \in 1..Len(positions) :
              MatchesInWindow(positions, j, windowSize)
                  <= MatchesInWindow(positions, i, windowSize)
        /\ \A j \in 1..(i - 1) :
              MatchesInWindow(positions, j, windowSize)
                  < MatchesInWindow(positions, i, windowSize)

\* extractBestWindow(doc, windowSize)
extractBestWindow(doc, windowSize) ==
    IF Len(doc.matchPositions) = 0
    THEN Substring(doc.content, 0, windowSize)
    ELSE
    LET positions == doc.matchPositions
        best == BestPosition(positions, windowSize)
        bestStart == positions[best]
        padding == windowSize \div 4
        startPos == Max(0, bestStart - padding)
        endPos == Min(Len(doc.content), startPos + windowSize)
        finalStart == IF endPos - startPos < windowSize
                      THEN Max(0, endPos - windowSize)
                      ELSE startPos
    IN  (IF finalStart > 0 THEN Ellipsis ELSE <<>>)
        \o Substring(doc.content, finalStart, endPos)
        \o (IF endPos < Len(doc.content) THEN Ellipsis ELSE <<>>)

\* '=== DOCUMENTS ===\n\n'.length
ContextHeaderLength == 19
\* the window of a document in the context
ContextWindowSize == 1000

\* the block of a document: `[${filename}]\n` + window + '\n\n'
DocBlock(doc) ==
    [filename |-> doc.filename, filetype |-> doc.filetype,
     relevanceScore |-> doc.relevanceScore,
     window |-> extractBestWindow(doc, ContextWindowSize)]

BlockLength(block) == (Len(block.filename) + 3) + Len(block.window) + 2

\* a variant of the loop that goes on to the next document where the loop
\* breaks
RECURSIVE PackBlocksSkipping(_, _, _)
PackBlocksSkipping(topDocs, charCount, maxChars) ==
    IF topDocs = <<>> THEN <<>>
    ELSE The({ IF charCount + BlockLength(block) > maxChars
               THEN PackBlocksSkipping(Tail(topDocs), charCount, maxChars)
               ELSE <<block>> \o PackBlocksSkipping(Tail(topDocs),
                                                    charCount + BlockLength(block), maxChars)
               : block \in {DocBlock(Head(topDocs))} })

\* the loop of formatDocumentsForContext over topDocs: the blocks appended
\* before the first one that would exceed maxChars
RECURSIVE PackBlocks(_, _, _)
PackBlocks(topDocs, charCount, maxChars) ==
    IF topDocs = <<>> THEN <<>>
    ELSE The({ IF charCount + BlockLength(block) > maxChars THEN <<>>
               ELSE <<block>> \o PackBlocks(Tail(topDocs), charCount + BlockLength(block),
                                            maxChars)
               : block \in {DocBlock(Head(topDocs))} })

\* formatDocumentsForContext(documents, query, maxDocs, maxChars): the blocks
\* of the context, whether the omission marker was added, and selectedDocs
formatDocumentsForContext(documents, query, maxDocs, maxChars) ==
    The({ The({ [context |-> [blocks |-> [i \in 1..Len(blocks) |->
                                            [filename |-> blocks[i].filename,
                                             window |-> blocks[i].window]],
                              omitted |-> Len(blocks) < Len(topDocs)],
                 selectedDocs |-> [i \in 1..Len(blocks) |->
                                      [filename |-> blocks[i].filename,
                                       filetype |-> blocks[i].filetype,
                                       relevanceScore |-> blocks[i].relevanceScore]]]
                : blocks \in {Array(PackBlocks(topDocs, ContextHeaderLength, maxChars))} })
          : topDocs \in {Array(SubSeq(scoreDocumentsByKeywords(query, documents), 1,
                                      Min(maxDocs, Len(documents))))} })

(***************************************************************************)
(* Two-stage answer pipeline (searchDocuments) behind POST /search         *)
(***************************************************************************)

\* selectRelevantDocuments(query, docsWithPreviews, 5)
TopN == 5
\* formatDocumentsForContext(selectedDocs, query, selectedDocs.length, 12000)
AnswerMaxChars == 12000
\* formatDocumentsForContext(selectedDocs, query, 3, 5000)
SmallMaxDocs == 3
SmallMaxChars == 5000

SelectorModel == "llama-3.1-8b-instant"
AnswerModel == "llama-3.3-70b-versatile"
SmallModel == "llama-3.1-8b-instant"

Txt == <<".", "t", "x", "t">>

PipeDoc(name, content) ==
    [filename |-> name \o Txt, filetype |-> Tail(Txt), content |-> content]

\* The document sets a search is handed.
Corpus6 ==
    << PipeDoc(<<"c", "a", "t">>, <<"d", "o", "g">>),
       PipeDoc(<<"b">>, <<"c", "a", "t", "c", "a", "t">>),
       PipeDoc(<<"c">>, <<"c", "a", "t">>),
       PipeDoc(<<"d">>, <<>>),
       PipeDoc(<<"e">>, <<"x", "C", "a", "t", "x">>),
       PipeDoc(<<"f">>, <<"d", "o", "g", "d", "o", "g">>) >>

Corpus2 == << Corpus6[4], Corpus6[3] >>

Corpora == { <<>>, Corpus2, Corpus6 }

\* The queries (trimmed, not empty): "cat", "Cat dog?" and "a_b"
PipeQueries ==
    { <<"c", "a", "t">>, <<"C", "a", "t", " ", "d", "o", "g", "?">>, <<"a", "_", "b">> }

\* process.env.GROQ_API_KEY: a key, absent, or the placeholder of the template
ApiKeys == {"key", "absent", "your_groq_api_key_here"}

KeyConfigured(apiKey) == apiKey \notin {"absent", "your_groq_api_key_here"}

\* the corpus version of the requests of the pipeline
PipeVersion == <<"6", "-", "5">>

\* Messages are sequences of words; message.includes(word) looks a word up.
Includes(message, word) == \E i \in 1..Len(message) : message[i] = word

KeyErrorMessage == <<"GROQ_API_KEY", "not", "configured.">>

\* the message of selectRelevantDocuments
SelectorKeyErrorMessage == <<"GROQ_API_KEY", "not", "configured">>

TimeoutErrorMessage == <<"Request", "timeout", "-", "the", "LLM", "took", "too", "long">>

\* `Failed to get response from AI: ${error.message}`
FailedToGetResponse(message) == <<"Failed", "to", "get", "response", "from", "AI:">> \o message

NoDocumentsIngested ==
    [answer |-> <<"No documents have been ingested yet.">>, sources |-> <<>>,
     documentsSelected |-> 0]

RouteNoDocumentsFound ==
    [answer |-> <<"No documents found.">>, sources |-> <<>>, documentsSelected |-> 0]

NoRelevantDocuments == <<"No relevant documents found for this query.">>

NoAnswer == [answer |-> <<>>, sources |-> <<>>, documentsSelected |-> 0]

\* What the backend answers to the Stage A call: the content of the first
\* choice as JSON.parse and the regular expression read it, or a rejection.
StageAReplies ==
    { [kind |-> "array", key |-> "", names |-> <<Corpus6[6].filename, Corpus6[1].filename>>],
      [kind |-> "array", key |-> "", names |-> [i \in 1..6 |-> Corpus6[7 - i].filename]],
      [kind |-> "array", key |-> "", names |-> <<<<"g", "h", "o", "s", "t">> \o Txt>>],
      [kind |-> "array", key |-> "",
       names |-> <<<<"g", "h", "o", "s", "t">> \o Txt>> \o [i \in 1..6 |-> Corpus6[7 - i].filename]],
      [kind |-> "array", key |-> "", names |-> <<>>],
      [kind |-> "object", key |-> "files", names |-> <<Corpus6[2].filename>>],
      [kind |-> "object", key |-> "documents", names |-> <<Corpus6[3].filename>>],
      [kind |-> "object", key |-> "result", names |-> <<Corpus6[3].filename>>],
      [kind |-> "objectString", key |-> "files", names |-> <<>>],
      [kind |-> "text", key |-> "", names |-> <<Corpus6[5].filename, <<"n", ".", "m", "d">>>>],
      [kind |-> "nocontent", key |-> "", names |-> <<>>],
      [kind |-> "nochoices", key |-> "", names |-> <<>>],
      [kind |-> "error", key |-> "", names |-> <<>>] }

\* no reply to the Stage A call has been received
NoStageAReply == [kind |-> "none", key |-> "", names |-> <<>>]

\* the messages of the errors the backend rejects a call with
BackendErrors == { <<"429", "rate_limit">>, <<"413">>, <<"500">> }

\* What the backend answers to the Stage B call and to the retry call.
AnswerReplies ==
    { [kind |-> "ok", content |-> <<"answer">>, message |-> <<>>],
      [kind |-> "ok", content |-> <<>>, message |-> <<>>] }
    \cup { [kind |-> "error", content |-> <<>>, message |-> m] : m \in BackendErrors }

InSeq(x, s) == \E i \in 1..Len(s) : s[i] = x

FilenamesOf(docs) == [i \in 1..Len(docs) |-> docs[i].filename]

\* documents.map(doc => ({ filename, filetype }))
SourcesOf(docs) ==
    [i \in 1..Len(docs) |-> [filename |-> docs[i].filename, filetype |-> docs[i].filetype]]

\* array.slice(0, n)
Slice(s, n) == SubSeq(s, 1, Min(n, Len(s)))

\* the names matched by /["']([^"']+\.(txt|pdf|csv|pptx))["']/gi
HasListedExtension(name) ==
    \E ext \in { <<".", "t", "x", "t">>, <<".", "p", "d", "f">>, <<".", "c", "s", "v">>,
                 <<".", "p", "p", "t", "x">> } :
        /\ Len(name) > Len(ext)
        /\ ToLowerCase(SubSeq(name, Len(name) - Len(ext) + 1, Len(name))) = ext

\* the reply makes the try block of selectRelevantDocuments throw
\* (the call is rejected, the response has no choices, or the object parsed
\* holds a string where the array is expected)
StageAThrows(reply) == reply.kind \in {"error", "nochoices", "objectString"}

\* selectedFiles of a reply that does not throw
SelectedFiles(reply) ==
    CASE reply.kind = "array" -> reply.names
      [] reply.kind = "object" ->
            IF reply.key \in {"files", "documents"} THEN reply.names ELSE <<>>
      [] reply.kind = "text" -> SelectSeq(reply.names, HasListedExtension)
      [] OTHER -> <<>>

\* the selection cut to topN names before the names are validated
StageASelectionSliceFirst(reply, documents, topN) ==
    SelectSeq(Slice(SelectedFiles(reply), topN), LAMBDA f : InSeq(f, FilenamesOf(documents)))

\* selectedFiles.filter(f => validFiles.includes(f)).slice(0, topN)
StageASelection(reply, documents, topN) ==
    Slice(SelectSeq(SelectedFiles(reply), LAMBDA f : InSeq(f, FilenamesOf(documents))), topN)

\* the fallback in document order, without the scorer
StageAFallbackUnranked(query, documents, topN) == FilenamesOf(Slice(documents, topN))

\* the catch block of selectRelevantDocuments:
\* scoreDocumentsByKeywords(query, documents).slice(0, topN).map(d => d.filename)
StageAFallback(query, documents, topN) ==
    The({ Array(FilenamesOf(Slice(scored, topN)))
          : scored \in {Array(scoreDocumentsByKeywords(query, documents))} })

\* A backend call: the stage, the model, whether it is issued with the signal
\* of an AbortController armed by setTimeout, and the documents in its prompt.
BackendCall(stage, model, signal, maxDocs, maxChars, docs) ==
    [stage |-> stage, model |-> model, signal |-> signal, maxDocs |-> maxDocs,
     maxChars |-> maxChars, docs |-> docs]

\* One request: no search has been called yet.
IdlePipe ==
    [via |-> "none", apiKey |-> "key", query |-> <<>>, documents |-> <<>>,
     state |-> "Idle", path |-> <<"Idle">>, calls |-> <<>>, awaiting |-> "none",
     shortlisted |-> FALSE, stageAReply |-> "none", stageAReceived |-> NoStageAReply,
     selectedFilenames |-> <<>>,
     selectedDocs |-> <<>>, stageBReply |-> "none", retryReply |-> "none",
     returned |-> FALSE, result |-> NoAnswer, thrown |-> FALSE, error |-> <<>>,
     status |-> 0]

InitPipe == pipe = IdlePipe

\* the function returns
Return(p, result) ==
    [p EXCEPT !.state = "Done", !.path = Append(@, "Done"), !.awaiting = "none",
              !.returned = TRUE, !.result = result]

\* the function throws
Throw(p, message) ==
    [p EXCEPT !.state = "Failed", !.path = Append(@, "Failed"), !.awaiting = "none",
              !.thrown = TRUE, !.error = message]

\* a backend call is issued and awaited
Issue(p, call, state) ==
    [p EXCEPT !.calls = Append(@, call), !.awaiting = call.stage, !.state = state,
              !.path = IF p.state = state THEN @ ELSE Append(@, state)]

\* the Stage A call of selectRelevantDocuments
StageACall(p) ==
    BackendCall("stageA", SelectorModel, TRUE, Len(p.documents), 0,
                FilenamesOf(p.documents))

\* the Stage B call of generateAnswer
StageBCall(p) ==
    BackendCall("stageB", AnswerModel, TRUE, Len(p.selectedDocs), AnswerMaxChars,
                FilenamesOf(formatDocumentsForContext(p.selectedDocs, p.query,
                                Len(p.selectedDocs), AnswerMaxChars).selectedDocs))

\* the call of generateAnswerSmall
RetryCall(p) ==
    BackendCall("retry", SmallModel, FALSE, SmallMaxDocs, SmallMaxChars,
                FilenamesOf(formatDocumentsForContext(p.selectedDocs, p.query,
                                SmallMaxDocs, SmallMaxChars).selectedDocs))

\* searchDocuments issuing the Stage B call together with the Stage A call
IssueBothStages(p) ==
    [Issue(p, StageACall(p), "SelectingDocuments") EXCEPT
        !.calls = Append(@, StageBCall(p))]

\* searchDocuments maps the documents and awaits selectRelevantDocuments,
\* which issues the Stage A call (its own checks of the key and of the
\* documents have passed in searchDocuments already)
IssueStageA(p) == Issue(p, StageACall(p), "SelectingDocuments")

\* selectRelevantDocuments testing the key inside its try block
selectRelevantDocumentsFallingBack(p) ==
    IF Len(p.documents) = 0 THEN Return([p EXCEPT !.shortlisted = TRUE], p.result)
    ELSE IF ~KeyConfigured(p.apiKey)
         THEN Return([p EXCEPT !.shortlisted = TRUE, !.stageAReply = "error",
                               !.selectedFilenames =
                                   StageAFallback(p.query, p.documents, TopN)], p.result)
         ELSE IssueStageA(p)

\* selectRelevantDocuments(query, documents, topN) up to its await, when
\* another module calls it
selectRelevantDocuments(p) ==
    IF ~KeyConfigured(p.apiKey) THEN Throw(p, SelectorKeyErrorMessage)
    ELSE IF Len(p.documents) = 0 THEN Return([p EXCEPT !.shortlisted = TRUE], p.result)
    ELSE IssueStageA(p)

\* searchDocuments(query, documents) up to its first await
searchDocuments(p) ==
    IF ~KeyConfigured(p.apiKey) THEN Throw(p, KeyErrorMessage)
    ELSE IF Len(p.documents) = 0 THEN Return(p, NoDocumentsIngested)
    ELSE IssueStageA(p)

\* generateAnswer(query, selectedDocs) up to its await
generateAnswer(p) ==
    IF ~KeyConfigured(p.apiKey) THEN Throw(p, KeyErrorMessage)
    ELSE IF Len(p.selectedDocs) = 0
         THEN Return(p, [answer |-> NoRelevantDocuments, sources |-> <<>>,
                         documentsSelected |-> Len(p.selectedDocs)])
         ELSE The({ Issue(p, call, "GeneratingAnswer") : call \in {StageBCall(p)} })

\* selectRelevantDocuments letting the error of its backend call reach its
\* caller
AfterStageASurfacing(p, selectedFilenames, outcome) ==
    IF outcome = "error"
    THEN Throw([p EXCEPT !.stageAReply = outcome], <<"Document", "selection", "error">>)
    ELSE The({ The({ generateAnswer(q)
                : q \in {[p EXCEPT !.awaiting = "none", !.shortlisted = TRUE,
                                   !.stageAReply = outcome,
                                   !.selectedFilenames = names,
                                   !.selectedDocs = SelectSeq(p.documents,
                                                       LAMBDA d : InSeq(d.filename, names)),
                                   !.state = "GeneratingAnswer",
                                   !.path = Append(@, "GeneratingAnswer")]} })
          : names \in {selectedFilenames} })

\* selectRelevantDocuments has resolved with names: it returns them to the
\* module that called it, or searchDocuments filters the documents and
\* awaits generateAnswer
AfterStageA(p, selectedFilenames, outcome) ==
    The({ IF p.via = "stageA"
          THEN Return([p EXCEPT !.shortlisted = TRUE, !.stageAReply = outcome,
                                !.selectedFilenames = names], p.result)
          ELSE The({ generateAnswer(q)
                : q \in {[p EXCEPT !.awaiting = "none", !.shortlisted = TRUE,
                                   !.stageAReply = outcome,
                                   !.selectedFilenames = names,
                                   !.selectedDocs = SelectSeq(p.documents,
                                                       LAMBDA d : InSeq(d.filename, names)),
                                   !.state = "GeneratingAnswer",
                                   !.path = Append(@, "GeneratingAnswer")]} })
          : names \in {selectedFilenames} })

\* the Stage B call was aborted and the request is retried as after a rate
\* limit
AfterStageBAbortRetrying(p) ==
    Issue([p EXCEPT !.stageBReply = "abort"], RetryCall(p), "GeneratingAnswer")

\* the catch block of generateAnswer on an AbortError
AfterStageBAbort(p) == Throw([p EXCEPT !.stageBReply = "abort"], TimeoutErrorMessage)

\* a variant of the catch block that rethrows a rate-limit error as any
\* other error
AfterStageBSurfacingRateLimit(p, reply) ==
    IF reply.kind = "ok"
    THEN Return([p EXCEPT !.stageBReply = "ok"],
                [answer |-> reply.content, sources |-> SourcesOf(p.selectedDocs),
                 documentsSelected |-> Len(p.selectedDocs)])
    ELSE IF Includes(reply.message, "rate_limit") \/ Includes(reply.message, "413")
         THEN Throw([p EXCEPT !.stageBReply = "rate_limit"],
                    FailedToGetResponse(reply.message))
         ELSE Throw([p EXCEPT !.stageBReply = "error"], FailedToGetResponse(reply.message))

\* the Stage B call has resolved or was rejected with an error
AfterStageB(p, reply) ==
    IF reply.kind = "ok"
    THEN Return([p EXCEPT !.stageBReply = "ok"],
                [answer |-> reply.content, sources |-> SourcesOf(p.selectedDocs),
                 documentsSelected |-> Len(p.selectedDocs)])
    ELSE IF Includes(reply.message, "rate_limit") \/ Includes(reply.message, "413")
         THEN Issue([p EXCEPT !.stageBReply = "rate_limit"], RetryCall(p),
                    "GeneratingAnswer")
         ELSE Throw([p EXCEPT !.stageBReply = "error"], FailedToGetResponse(reply.message))

\* generateAnswerSmall retrying itself when it is rate limited in turn
AfterRetryRetrying(p, reply) ==
    IF reply.kind = "ok"
    THEN Return([p EXCEPT !.retryReply = "ok"],
                [answer |-> reply.content,
                 sources |-> SourcesOf(Slice(p.selectedDocs, SmallMaxDocs)),
                 documentsSelected |-> Len(p.selectedDocs)])
    ELSE IF Includes(reply.message, "rate_limit")
         THEN Issue([p EXCEPT !.retryReply = "error"], RetryCall(p), "GeneratingAnswer")
         ELSE Throw([p EXCEPT !.retryReply = "error"], reply.message)

\* a variant of generateAnswerSmall that reports every selected document
AfterRetryReportingEverySource(p, reply) ==
    IF reply.kind = "ok"
    THEN Return([p EXCEPT !.retryReply = "ok"],
                [answer |-> reply.content, sources |-> SourcesOf(p.selectedDocs),
                 documentsSelected |-> Len(p.selectedDocs)])
    ELSE Throw([p EXCEPT !.retryReply = "error"], reply.message)

\* the call of generateAnswerSmall has resolved or was rejected: its error
\* is not caught on the way to the caller of searchDocuments
AfterRetry(p, reply) ==
    IF reply.kind = "ok"
    THEN Return([p EXCEPT !.retryReply = "ok"],
                [answer |-> reply.content,
                 sources |-> SourcesOf(Slice(p.selectedDocs, SmallMaxDocs)),
                 documentsSelected |-> Len(p.selectedDocs)])
    ELSE Throw([p EXCEPT !.retryReply = "error"], reply.message)

\* POST /search after searchDocuments has returned or thrown: the status of
\* the response
RouteResponds(p) ==
    IF p.via # "route" \/ p.state \notin {"Done", "Failed"} THEN p
    ELSE [p EXCEPT !.status =
            IF p.returned THEN 200
            ELSE IF Includes(p.error, "timeout") THEN 504
            ELSE IF Includes(p.error, "GROQ_API_KEY") THEN 503
            ELSE 500]

\* POST /search calling cache.set whether searchDocuments has returned or
\* thrown
RouteCachesAlways(p) ==
    IF p.via = "route" /\ p.state \in {"Done", "Failed"}
    THEN CacheSetUpdate(p.query, PipeVersion, p.result)
    ELSE UNCHANGED cacheVars

\* ... and cache.set(trimmedQuery, currentCorpusVersion, result) when it has
\* returned
RouteCaches(p) ==
    IF p.via = "route" /\ p.state = "Done"
    THEN CacheSetUpdate(p.query, PipeVersion, p.result)
    ELSE UNCHANGED cacheVars

\* a step of the request ends in p
PipeStep(p) ==
    /\ pipe' = RouteResponds(p)
    /\ RouteCaches(p)
    /\ UNCHANGED <<rateVars, serverVars, indexVars>>

\* searchDocuments(query, documents) is called by another module
CallSearchDocuments(apiKey, query, documents) ==
    /\ pipe.via = "none"
    /\ PipeStep(searchDocuments([pipe EXCEPT !.via = "call", !.apiKey = apiKey,
                                             !.query = query,
                                             !.documents = documents]))

\* POST /search has loaded no document: the fixed response, searchDocuments
\* is not called
RouteSearchNoDocuments(apiKey, query) ==
    /\ pipe.via = "none"
    /\ pipe' = [pipe EXCEPT !.via = "route", !.apiKey = apiKey, !.query = query,
                            !.returned = TRUE, !.result = RouteNoDocumentsFound,
                            !.status = 200]
    /\ UNCHANGED <<rateVars, serverVars, cacheVars, indexVars>>

\* POST /search has loaded its documents: cache.get misses and
\* searchDocuments is awaited
RouteSearch(apiKey, query, documents) ==
    /\ pipe.via = "none"
    /\ Len(documents) # 0
    /\ ~MapHas(cache, getKey(query, PipeVersion))
    /\ CacheGetUpdate(query, PipeVersion)
    /\ pipe' = RouteResponds(searchDocuments([pipe EXCEPT !.via = "route",
                                                 !.apiKey = apiKey, !.query = query,
                                                 !.documents = documents]))
    /\ UNCHANGED <<rateVars, serverVars, indexVars>>

\* the backend answers the Stage A call
StageAReplied(reply) ==
    /\ pipe.awaiting = "stageA"
    /\ PipeStep(IF StageAThrows(reply)
                THEN AfterStageA([pipe EXCEPT !.stageAReceived = reply],
                                 StageAFallback(pipe.query, pipe.documents, TopN), "error")
                ELSE AfterStageA([pipe EXCEPT !.stageAReceived = reply],
                                 StageASelection(reply, pipe.documents, TopN), "ok"))

\* the timer of the Stage A call fires: the call is aborted
StageATimeout ==
    /\ pipe.awaiting = "stageA"
    /\ PipeStep(AfterStageA(pipe, StageAFallback(pipe.query, pipe.documents, TopN), "abort"))

\* the backend answers the Stage B call
StageBReplied(reply) ==
    /\ pipe.awaiting = "stageB"
    /\ PipeStep(AfterStageB(pipe, reply))

\* the timer of the Stage B call fires: the call is aborted
StageBTimeout ==
    /\ pipe.awaiting = "stageB"
    /\ PipeStep(AfterStageBAbort(pipe))

\* the backend answers the call of generateAnswerSmall
RetryReplied(reply) ==
    /\ pipe.awaiting = "retry"
    /\ PipeStep(AfterRetry(pipe, reply))

NextPipe ==
    \/ \E k \in ApiKeys, q \in PipeQueries, d \in Corpora : CallSearchDocuments(k, q, d)
    \/ \E k \in ApiKeys, q \in PipeQueries : RouteSearchNoDocuments(k, q)
    \/ \E k \in ApiKeys, q \in PipeQueries, d \in Corpora : RouteSearch(k, q, d)
    \/ \E r \in StageAReplies : StageAReplied(r)
    \/ StageATimeout
    \/ \E r \in AnswerReplies : StageBReplied(r)
    \/ StageBTimeout
    \/ \E r \in AnswerReplies : RetryReplied(r)

\* POST /search has loaded its documents and cache.get hits: the cached
\* result is the response, searchDocuments is not called
RouteSearchHit(apiKey, query, documents) ==
    /\ pipe.via = "none"
    /\ Len(documents) # 0
    /\ MapHas(cache, getKey(query, PipeVersion))
    /\ CacheGetUpdate(query, PipeVersion)
    /\ pipe' = [pipe EXCEPT !.via = "route", !.apiKey = apiKey, !.query = query,
                            !.documents = documents, !.returned = TRUE,
                            !.result = CacheGetResult(cache, getKey(query, PipeVersion)),
                            !.status = 200]
    /\ UNCHANGED <<rateVars, serverVars, indexVars>>

\* selectRelevantDocuments(query, documents, TopN) is called by another
\* module
CallSelectRelevantDocuments(apiKey, query, documents) ==
    /\ pipe.via = "none"
    /\ PipeStep(selectRelevantDocuments([pipe EXCEPT !.via = "stageA", !.apiKey = apiKey,
                                                     !.query = query,
                                                     !.documents = documents]))

\* generateAnswer(query, selectedDocs) is called by another module
CallGenerateAnswer(apiKey, query, selectedDocs) ==
    /\ pipe.via = "none"
    /\ PipeStep(generateAnswer([pipe EXCEPT !.via = "stageB", !.apiKey = apiKey,
                                            !.query = query,
                                            !.documents = selectedDocs,
                                            !.selectedDocs = selectedDocs]))

\* POST /search with the cache as earlier requests have left it
NextRoute ==
    \/ NextPipe
    \/ \E k \in ApiKeys, q \in PipeQueries, d \in Corpora : RouteSearchHit(k, q, d)

\* POST /search and the exported functions of the pipeline
NextStages ==
    \/ NextRoute
    \/ \E k \in ApiKeys, q \in PipeQueries, d \in Corpora :
          CallSelectRelevantDocuments(k, q, d)
    \/ \E k \in ApiKeys, q \in PipeQueries, d \in Corpora : CallGenerateAnswer(k, q, d)

(***************************************************************************)
(* Calls of the exported functions scoreDocumentsByKeywords,               *)
(* extractBestWindow and formatDocumentsForContext                         *)
(***************************************************************************)

\* the longest list of documents, and of match positions, a call is handed
MaxListLen == 3

\* The documents the calls are handed: cat.txt "xxxxxx", b.txt "catcat",
\* e.txt "xCatx", d.txt "" and f.txt "dogdog"
TextDocs ==
    { PipeDoc(<<"c", "a", "t">>, <<"x", "x", "x", "x", "x", "x">>),
      Corpus6[2], Corpus6[5], Corpus6[4], Corpus6[6] }

\* the lists of different documents
DocumentLists ==
    UNION { { l \in [1..n -> TextDocs] : \A i, j \in 1..n : l[i] = l[j] => i = j }
            : n \in 0..MaxListLen }

\* the sorted lists of at most MaxListLen offsets into a content of n
\* characters (two tokens that occur at one offset record it twice)
PositionLists(n) ==
    UNION { { l \in [1..k -> 0..(n - 1)] : \A i \in 1..(k - 1) : l[i] <= l[i + 1] }
            : k \in 0..MaxListLen }

\* a scored document of 12 different characters
ShortContent == <<"a", "b", "c", "d", "e", "f", "g", "h", "i", "j", "k", "l">>

\* a scored document of 2000 characters with matches at 50, 60 and 1800
LongContent ==
    [i \in 1..2000 |-> IF i = 51 THEN "a" ELSE IF i = 61 THEN "b"
                       ELSE IF i = 1801 THEN "c" ELSE "x"]

ScoredDoc(content, positions) ==
    [filename |-> <<"s">> \o Txt, filetype |-> Tail(Txt), content |-> content,
     relevanceScore |-> [score |-> 2 * Len(positions), length |-> Len(content)],
     matchPositions |-> positions]

\* the documents and window sizes extractBestWindow is called with
WindowCalls ==
    { <<ScoredDoc(ShortContent, l), w>> :
          l \in PositionLists(Len(ShortContent)), w \in {1, 2, 4, 8, 16} }
    \cup { <<ScoredDoc(LongContent, <<50, 60, 1800>>), 200>> }

\* the budgets formatDocumentsForContext is called with: the header alone,
\* the header and one block of b.txt exactly, and larger ones
CharBudgets == {19, 35, 37, 51, 53, 12000}

CallScoreDocumentsByKeywords(query, documents) ==
    /\ textCall.fn = "none"
    /\ textCall' = [NoCall EXCEPT !.fn = "scoreDocumentsByKeywords", !.query = query,
                                  !.documents = documents,
                                  !.result = scoreDocumentsByKeywords(query, documents)]
    /\ UNCHANGED <<db, ingest, lastRejected, rateVars, cacheVars, indexVars, pipeVars>>

CallExtractBestWindow(doc, windowSize) ==
    /\ textCall.fn = "none"
    /\ textCall' = [NoCall EXCEPT !.fn = "extractBestWindow", !.documents = <<doc>>,
                                  !.windowSize = windowSize,
                                  !.result = extractBestWindow(doc, windowSize)]
    /\ UNCHANGED <<db, ingest, lastRejected, rateVars, cacheVars, indexVars, pipeVars>>

CallFormatDocumentsForContext(documents, query, maxDocs, maxChars) ==
    /\ textCall.fn = "none"
    /\ textCall' = [NoCall EXCEPT !.fn = "formatDocumentsForContext", !.query = query,
                                  !.documents = documents, !.maxDocs = maxDocs,
                                  !.maxChars = maxChars,
                                  !.result = formatDocumentsForContext(documents, query,
                                                                      maxDocs, maxChars)]
    /\ UNCHANGED <<db, ingest, lastRejected, rateVars, cacheVars, indexVars, pipeVars>>

\* the caller has read the result
TextCallReturns ==
    /\ textCall.fn # "none"
    /\ textCall' = NoCall
    /\ UNCHANGED <<db, ingest, lastRejected, rateVars, cacheVars, indexVars, pipeVars>>

\* one call at a time, of any of the three functions
NextText ==
    \/ TextCallReturns
    \/ \E q \in PipeQueries, d \in DocumentLists : CallScoreDocumentsByKeywords(q, d)
    \/ \E c \in WindowCalls : CallExtractBestWindow(c[1], c[2])
    \/ \E q \in PipeQueries, d \in DocumentLists, n \in 1..MaxListLen, m \in CharBudgets :
          CallFormatDocumentsForContext(d, q, n, m)

\* The results earlier requests have cached: for "a_b", then for "cat".
WarmResults ==
    << [query |-> <<"a", "_", "b">>,
        result |-> [answer |-> NoRelevantDocuments, sources |-> <<>>,
                    documentsSelected |-> 0]],
       [query |-> <<"c", "a", "t">>,
        result |-> [answer |-> <<"answer">>, sources |-> SourcesOf(Corpus2),
                    documentsSelected |-> 2]] >>

\* the cache after the first n of these results were cached
RECURSIVE WarmCache(_)
WarmCache(n) ==
    IF n = 0 THEN <<>>
    ELSE CacheAfterSet(WarmCache(n - 1), MaxCapacity,
                       getKey(WarmResults[n].query, PipeVersion), WarmResults[n].result)

InitWarmCache ==
    /\ maxSize = MaxCapacity
    /\ \E n \in 0..Len(WarmResults) :
          /\ cache = WarmCache(n)
          /\ touchOrder = [i \in 1..Len(WarmCache(n)) |-> WarmCache(n)[i].key]
    /\ cacheOp = NoCacheOp

Init == InitRate /\ InitCache /\ InitIndex /\ InitPipe /\ InitServer

SpecRate == Init /\ [][NextRate]_vars

\* the class SearchCache, for a cache of any capacity
InitAnyCache ==
    InitRate /\ (\E n \in 1..MaxCapacity : InitCacheOf(n)) /\ InitIndex /\ InitPipe
    /\ InitServer

SpecCache == InitAnyCache /\ [][NextCache]_vars

SpecIndex == Init /\ [][NextIndex]_vars

SpecSearchIndex == Init /\ [][NextSearchIndex]_vars

SpecPipe == Init /\ [][NextPipe]_vars

\* The timers of the Stage A and Stage B calls fire when the backend has not
\* answered; the backend itself may never answer.
SpecPipeFair ==
    Init /\ [][NextPipe]_vars /\ WF_vars(StageATimeout) /\ WF_vars(StageBTimeout)

InitRoute == InitRate /\ InitWarmCache /\ InitIndex /\ InitPipe /\ InitServer

\* one request to POST /search, after earlier requests
SpecRoute == InitRoute /\ [][NextRoute]_vars

\* one call of POST /search, searchDocuments, selectRelevantDocuments or
\* generateAnswer
SpecStages == InitRoute /\ [][NextStages]_vars

\* the server is started on a directory that holds a.txt and n.md
InitSnapshot ==
    /\ InitRate /\ InitCache /\ InitPipe /\ InitServer
    /\ fs = [f \in FileNames |-> IF f = "b.txt" THEN NoFile ELSE 1]
    /\ fsClock = 1
    /\ documentIndex = NoBuild
    /\ corpusVersion = NullVersion
    /\ builds = [b \in Builds |-> IF b = 1 THEN NewBuild ELSE UnusedBuild]
    /\ handlers = [h \in Handlers |-> IdleHandler]
    /\ lastRead = NoRead

\* ... and the table documents is empty, or holds the row of a.txt that an
\* earlier run of the server has ingested
InitSearch ==
    /\ InitRate /\ InitCache /\ InitPipe
    /\ db \in {<<>>, <<[id |-> 1, filename |-> "a.txt", filetype |-> Filetype("a.txt"),
                       content |-> 1]>>}
    /\ ingest = IdleIngest
    /\ lastRejected = NoRejection
    /\ textCall = NoCall
    /\ fs = [f \in FileNames |-> IF f = "b.txt" THEN NoFile ELSE 1]
    /\ fsClock = 1
    /\ documentIndex = NoBuild
    /\ corpusVersion = NullVersion
    /\ builds = [b \in Builds |-> IF b = 1 THEN NewBuild ELSE UnusedBuild]
    /\ handlers = [h \in Handlers |-> IdleHandler]
    /\ lastRead = NoRead

\* the requests to POST /search
SpecSearch == InitSearch /\ [][NextSearch]_vars

\* POST /search while the index is rebuilt
SpecSnapshot == InitSnapshot /\ [][NextSnapshot]_vars

\* POST /ingest on a server whose cache earlier requests have filled
SpecIngest == InitRoute /\ [][NextIngest]_vars

\* calls of the exported text functions
SpecText == Init /\ [][NextText]_vars

\* the requests to POST /search from their arrival
SpecAdmission == InitSearch /\ [][NextAdmission]_vars

RECURSIVE SumOver(_, _)
SumOver(f, S) ==
    IF S = {} THEN 0
    ELSE LET x == CHOOSE y \in S : TRUE IN f[x] + SumOver(f, S \ {x})

\* the requests of ip admitted in the trailing window (w - WINDOW, w]
AdmittedInWindow(ip, w) ==
    SumOver(admitted[ip], {t \in Instants : t > w - RATE_LIMIT_WINDOW_MS /\ t <= w})

\* C1: for each client, the requests admitted by checkRateLimit inside any
\* trailing window of RATE_LIMIT_WINDOW_MS never exceed
\* RATE_LIMIT_MAX_REQUESTS, whatever the interleaving of the requests:
\* the read of the history and the recording of the timestamp are one step.
C1_WindowNeverExceeded ==
    \A ip \in Clients : \A w \in Instants :
        w <= now => AdmittedInWindow(ip, w) <= RATE_LIMIT_MAX_REQUESTS

\* C1 witness: a client has filled its window while an earlier request of
\* it is still suspended, and the next request has been throttled.
C1_Witness ==
    \E ip \in Clients :
        /\ AdmittedInWindow(ip, now) = RATE_LIMIT_MAX_REQUESTS
        /\ inflight[ip] > 0
        /\ lastResult.ip = ip /\ ~lastResult.allowed /\ lastResult.at = now
        /\ now > RATE_LIMIT_WINDOW_MS


\* C2: a set of an absent key on a full cache removes exactly one entry,
\* the least recently touched one (inserting an entry and hitting it with
\* get are the touches); the entry touched last, when there are others,
\* survives that eviction.
C2_EvictsLeastRecentlyTouched ==
    [][ (cacheOp'.op = "set" /\ ~MapHas(cache, cacheOp'.key) /\ Len(cache) = maxSize)
        => /\ Len(cache') = Len(cache)
           /\ MapKeys(cache') = (MapKeys(cache) \ {Head(touchOrder)}) \cup {cacheOp'.key}
           /\ Len(touchOrder) >= 2 => touchOrder[Len(touchOrder)] \in MapKeys(cache') ]_vars

\* C2 witness: in a full cache of capacity 2 a get has hit an entry, the set
\* of a new key that followed has evicted the other entry, and the entry
\* that was hit is still held.
C2_Witness ==
    /\ maxSize = 2 /\ Len(cache) = 2
    /\ cacheOp.op = "set" /\ cacheOp.key = getKey(<<"a", "b">>, <<"1", "-", "5">>)
    /\ cacheOp.prevHit = getKey(<<"a">>, <<"1", "-", "5">>)
    /\ cacheOp.evicted = {getKey(<<"b">>, <<"1", "-", "5">>)}
    /\ cache[1].key = cacheOp.prevHit
    /\ cache[2].key = cacheOp.key

\* C3: when the document set at a cache lookup differs from the document
\* set at the lookup before it, the corpus version token the lookup uses as
\* cache key differs from the token of the lookup before it.
C3_TokenChangesWithCorpus ==
    [][ (lastRead # NoRead /\ lastRead' # NoRead /\ lastRead'.docs # lastRead.docs)
        => lastRead'.token # lastRead.token ]_vars

\* the names of the records of an array, in order
Filenames(index) == [i \in 1..Len(index) |-> index[i].filename]

\* the array of build b holds a record for every file of its listing that
\* was not skipped, and the build has left its loop
Complete(b) ==
    /\ builds[b].pc \in {"fingerprint", "done"}
    /\ Filenames(builds[b].index)
         = SelectSeq(builds[b].listing, LAMBDA f : f \notin builds[b].skipped)

\* C4: a rebuild in progress never exposes a partially populated index:
\* the array documentIndex refers to, and the array every reader holds, is
\* the complete array of a build that has left its loop (or no array).
C4_NoPartialIndexExposed ==
    \A ref \in {documentIndex} \cup {handlers[h].docs : h \in Handlers} :
        ref # NoBuild => Complete(ref)

\* C4 witness: a reader holds a non-empty index it has read while another
\* build is in its loop with some of its records pushed.
C4_Witness ==
    \E h \in Handlers, b \in Builds :
        /\ handlers[h].pc = "haveDocs"
        /\ handlers[h].docs \notin {NoBuild, b}
        /\ Len(Documents(h)) >= 1
        /\ builds[b].pc = "extract"
        /\ Len(builds[b].index) >= 1
        /\ Len(builds[b].index) < Len(builds[b].listing)

\* the edges of the state machine of a request between its stages
StageEdges ==
    { <<"Idle", "SelectingDocuments">>, <<"SelectingDocuments", "GeneratingAnswer">>,
      <<"GeneratingAnswer", "Done">>, <<"SelectingDocuments", "Failed">>,
      <<"GeneratingAnswer", "Failed">> }

\* the edges that leave Idle without entering a stage
EntryEdges == { <<"Idle", "Failed">>, <<"Idle", "Done">> }

PathEdges == {<<pipe.path[i], pipe.path[i + 1]>> : i \in 1..(Len(pipe.path) - 1)}

\* the Stage B call is issued after Stage A has produced its shortlist, and
\* no call is issued while another one is awaited
StagesInOrder ==
    /\ pipe.state = pipe.path[Len(pipe.path)]
    /\ \A i \in 1..Len(pipe.calls) :
          pipe.calls[i].stage # "stageA"
              => pipe.shortlisted /\ i > 1 /\ pipe.calls[1].stage = "stageA"
    /\ pipe.awaiting = "stageA" => Len(pipe.calls) = 1
    /\ pipe.awaiting # "none" => pipe.calls[Len(pipe.calls)].stage = pipe.awaiting

\* C5 as stated: the state of a request moves only along Idle ->
\* SelectingDocuments -> GeneratingAnswer -> Done or from an active state to
\* Failed, with the Stage B call after the shortlist of Stage A and no two
\* calls awaited at once.
C5_OnlyStageEdges == PathEdges \subseteq StageEdges /\ StagesInOrder

\* C5, amended: the state of a request moves only along the edges between
\* the stages, or from Idle to Failed when the key of the backend is not
\* configured, or from Idle to Done when the document set is empty (no
\* backend call is issued on these two edges); the Stage B call is issued
\* after the shortlist of Stage A, no two calls are awaited at once, and
\* Done and Failed have no outgoing edge.
C5_StageOrEntryEdges ==
    /\ PathEdges \subseteq (StageEdges \cup EntryEdges)
    /\ <<"Idle", "Failed">> \in PathEdges
         => ~KeyConfigured(pipe.apiKey) /\ pipe.calls = <<>>
    /\ <<"Idle", "Done">> \in PathEdges
         => Len(pipe.documents) = 0 /\ pipe.calls = <<>>
    /\ StagesInOrder

\* C5 witness: a request has gone through both stages, one call each, and
\* is Done.
C5_Witness ==
    /\ pipe.path = <<"Idle", "SelectingDocuments", "GeneratingAnswer", "Done">>
    /\ Len(pipe.calls) = 2
    /\ pipe.calls[1].stage = "stageA" /\ pipe.calls[2].stage = "stageB"
    /\ pipe.returned

\* C6: when the Stage A call times out or fails in another way and the
\* document set is not empty, the shortlist is not empty and is the first
\* min(TopN, number of documents) filenames of the ranking of the keyword
\* scorer, a ranking in which no document ranks strictly before one placed
\* ahead of it.
C6_FallbackIsScorerTopN ==
    (pipe.stageAReply \in {"error", "abort"} /\ Len(pipe.documents) > 0)
    => LET ranking == scoreDocumentsByKeywords(pipe.query, pipe.documents)
           k == Min(TopN, Len(pipe.documents))
       IN  /\ pipe.selectedFilenames # <<>>
           /\ Len(pipe.selectedFilenames) = k
           /\ \A i \in 1..k : pipe.selectedFilenames[i] = ranking[i].filename
           /\ Len(ranking) = Len(pipe.documents)
           /\ \A d \in 1..Len(pipe.documents) :
                 \E i \in 1..Len(ranking) : ranking[i].filename = pipe.documents[d].filename
           /\ \A i \in 1..Len(ranking) : \A j \in (i + 1)..Len(ranking) :
                 ~RanksBefore(ranking[j], ranking[i])

\* C6 witness: the Stage A call for "cat" over six documents was aborted by
\* its timer, and the shortlist is the five best ranked filenames, which
\* are not the first five of the document set.
C6_Witness ==
    /\ pipe.stageAReply = "abort"
    /\ pipe.documents = Corpus6
    /\ pipe.query = <<"c", "a", "t">>
    /\ pipe.selectedFilenames =
          << Corpus6[1].filename, Corpus6[2].filename, Corpus6[3].filename,
             Corpus6[5].filename, Corpus6[4].filename >>

CallsOf(stage) == {i \in 1..Len(pipe.calls) : pipe.calls[i].stage = stage}

\* C7: a request issues at most one Stage A call, one Stage B call and one
\* retry call; the retry call is issued exactly when the Stage B call was
\* rejected with a rate-limit error, follows the Stage B call, carries at
\* most 3 documents, a smaller character budget and the small model; and
\* an error of the retry call fails the request with that error.
C7_OneRetryOnRateLimit ==
    /\ \A stage \in {"stageA", "stageB", "retry"} : Cardinality(CallsOf(stage)) <= 1
    /\ (CallsOf("retry") # {}) <=> (pipe.stageBReply = "rate_limit")
    /\ \A i \in CallsOf("retry") :
          /\ i > 1 /\ pipe.calls[i - 1].stage = "stageB"
          /\ pipe.calls[i].maxDocs = 3
          /\ Len(pipe.calls[i].docs) <= 3
          /\ pipe.calls[i].maxChars < pipe.calls[i - 1].maxChars
          /\ pipe.calls[i].model = "llama-3.1-8b-instant"
          /\ pipe.calls[i].model # pipe.calls[i - 1].model
    /\ pipe.retryReply = "error"
         => /\ pipe.state = "Failed" /\ pipe.thrown /\ ~pipe.returned
            /\ pipe.error \in BackendErrors

\* C7 witness: the Stage B call over five selected documents was rate
\* limited, the retry call carried three of them and was rate limited in
\* turn, and the request has failed with that error after three calls.
C7_Witness ==
    /\ Len(pipe.selectedDocs) = 5
    /\ pipe.stageBReply = "rate_limit"
    /\ Len(pipe.calls) = 3
    /\ Len(pipe.calls[2].docs) = 5
    /\ Len(pipe.calls[3].docs) = 3
    /\ pipe.retryReply = "error"
    /\ pipe.state = "Failed"
    /\ pipe.error = <<"429", "rate_limit">>

\* C8: when the Stage B call times out the request is Failed with the
\* timeout error: no retry call is issued, nothing is returned, and the
\* cache holds nothing (POST /search answers 504).
C8_StageBTimeoutFails ==
    pipe.stageBReply = "abort"
    => /\ pipe.state = "Failed" /\ pipe.thrown /\ ~pipe.returned
       /\ pipe.error = TimeoutErrorMessage
       /\ Includes(pipe.error, "timeout")
       /\ CallsOf("retry") = {}
       /\ pipe.result = NoAnswer
       /\ cache = <<>> /\ cacheOp.op # "set"
       /\ pipe.via = "route" => pipe.status = 504

\* C8 witness: POST /search missed the cache, Stage A selected documents,
\* the Stage B call was aborted by its timer, and the response is 504.
C8_Witness ==
    /\ pipe.via = "route"
    /\ pipe.stageAReply = "ok"
    /\ Len(pipe.selectedDocs) = 2
    /\ pipe.stageBReply = "abort"
    /\ pipe.status = 504
    /\ cacheOp.op = "get"

\* C9: every request reaches Done or Failed (or has been answered without
\* the pipeline), even if the backend never answers one of its calls.
C9_EveryRequestTerminates ==
    (pipe.via # "none") ~> (pipe.state \in {"Done", "Failed"} \/ pipe.returned)

\* C10: whenever the document set handed to search is empty, search returns
\* the fixed empty-corpus message with documentsSelected = 0 and no source,
\* and no backend call is issued.
C10_EmptyCorpusFixedMessage ==
    (pipe.via # "none" /\ Len(pipe.documents) = 0)
    => /\ pipe.returned
       /\ pipe.result \in {NoDocumentsIngested, RouteNoDocumentsFound}
       /\ pipe.result.documentsSelected = 0 /\ pipe.result.sources = <<>>
       /\ pipe.calls = <<>>

\* the step is a cache hit of POST /search (the request is answered from
\* the cache, no pipeline runs)
CacheHitStep ==
    /\ pipe.via = "none" /\ pipe'.via = "route" /\ pipe'.returned /\ pipe'.calls = <<>>
    /\ cacheOp'.op = "get" /\ cacheOp'.ret # NullEntry

\* C11: the cache is written only in the step in which the pipeline of a
\* request of POST /search completes successfully, under the key of its
\* query and corpus version and with its result; every other step of a
\* request (apart from the promotion of a hit), and so every step of a
\* request that fails in Stage A, in Stage B or in the retry call, leaves
\* the entries of the cache and their recency order unchanged.
C11_CacheWriteFollowsSuccess ==
    [][ /\ (cache' # cache \/ touchOrder' # touchOrder)
            => \/ CacheHitStep
               \/ /\ pipe'.via = "route" /\ pipe.state # "Done" /\ pipe'.state = "Done"
                  /\ pipe'.returned /\ pipe'.status = 200
                  /\ cacheOp'.op = "set"
                  /\ cacheOp'.key = getKey(pipe'.query, PipeVersion)
                  /\ MapGet(cache', cacheOp'.key) = pipe'.result
        /\ cacheOp'.op = "set" => pipe'.state = "Done"
        /\ (pipe'.state = "Failed" \/ pipe'.thrown)
            => cache' = cache /\ touchOrder' = touchOrder /\ cacheOp'.op # "set" ]_vars

\* C11 witness: a request of POST /search has failed in the retry call
\* while the cache held the two entries of earlier requests, in their order.
C11_Witness ==
    /\ pipe.via = "route" /\ pipe.state = "Failed" /\ pipe.retryReply = "error"
    /\ pipe.status = 500
    /\ cache = WarmCache(2) /\ Len(cache) = 2
    /\ touchOrder = <<cache[1].key, cache[2].key>>

\* the client is in the blocked state at the current instant
Blocked(ip) ==
    /\ rateLimitStore[ip] # NoEntry
    /\ rateLimitStore[ip].blocked
    /\ now < rateLimitStore[ip].blockedUntil

\* the step is a call of checkRateLimit for ip
RateCheckStep(ip) ==
    /\ now' = now
    /\ lastResult'.ip = ip /\ lastResult'.at = now
    /\ rateLimitStore' # rateLimitStore \/ lastResult' # lastResult

\* the timestamps in the history of ip
RequestsOf(store, ip) == IF store[ip] = NoEntry THEN <<>> ELSE store[ip].requests

\* C12: a request of a client that is not blocked is admitted exactly when
\* fewer than RATE_LIMIT_MAX_REQUESTS requests of it were admitted inside
\* the trailing window; when it is admitted its own timestamp, and nothing
\* else, is appended to the history kept for the window; when it is rejected
\* the history gains no timestamp.
C12_AdmittedIffUnderLimit ==
    [][ \A ip \in Clients : (RateCheckStep(ip) /\ ~Blocked(ip)) =>
          LET before == RequestsOf(rateLimitStore, ip)
              after == RequestsOf(rateLimitStore', ip)
          IN  /\ lastResult'.allowed
                    <=> AdmittedInWindow(ip, now) < RATE_LIMIT_MAX_REQUESTS
              /\ lastResult'.allowed
                    => /\ Len(after) = AdmittedInWindow(ip, now) + 1
                       /\ after[Len(after)] = now
                       /\ \A i \in 1..(Len(after) - 1) :
                             after[i] > now - RATE_LIMIT_WINDOW_MS /\ InSeq(after[i], before)
                       /\ admitted' = [admitted EXCEPT ![ip][now] = @ + 1]
              /\ ~lastResult'.allowed
                    => /\ admitted' = admitted
                       /\ Len(after) <= Len(before)
                       /\ \A i \in 1..Len(after) : InSeq(after[i], before) ]_vars

\* C12 witness: a client that was not blocked has been rejected in the
\* second window, with ten requests admitted inside the trailing window and
\* older admitted requests that have left it.
C12_Witness ==
    \E ip \in Clients :
        /\ lastResult.ip = ip /\ lastResult.reason = "rate_limit"
        /\ lastResult.at = now /\ now = RATE_LIMIT_WINDOW_MS + 1
        /\ admitted[ip][0] > 0 /\ admitted[ip][1] > 0
        /\ AdmittedInWindow(ip, now) = RATE_LIMIT_MAX_REQUESTS
        /\ Len(rateLimitStore[ip].requests) = RATE_LIMIT_MAX_REQUESTS

\* C13: the request that finds the window full blocks its client until its
\* own time plus one full window; every request the client sends before
\* blockedUntil is rejected as blocked, whatever the trailing window holds
\* by then, and leaves blockedUntil and the timestamp history as they were.
C13_BlockedUntilTriggerPlusWindow ==
    [][ \A ip \in Clients : RateCheckStep(ip) =>
          /\ (~Blocked(ip) /\ ~lastResult'.allowed)
                => /\ lastResult'.reason = "rate_limit"
                   /\ rateLimitStore'[ip].blocked
                   /\ rateLimitStore'[ip].blockedUntil = now + RATE_LIMIT_WINDOW_MS
          /\ Blocked(ip)
                => /\ ~lastResult'.allowed /\ lastResult'.reason = "blocked"
                   /\ rateLimitStore' = rateLimitStore
                   /\ admitted' = admitted ]_vars

\* C13 witness: a blocked client has been rejected at an instant at which
\* its trailing window holds no admitted request any more; the block still
\* ends one window after the request that triggered it, and the history
\* still holds the ten timestamps.
C13_Witness ==
    \E ip \in Clients :
        /\ lastResult.ip = ip /\ lastResult.reason = "blocked" /\ lastResult.at = now
        /\ now = RATE_LIMIT_WINDOW_MS
        /\ AdmittedInWindow(ip, now) = 0
        /\ rateLimitStore[ip].blockedUntil = RATE_LIMIT_WINDOW_MS + 1
        /\ Len(rateLimitStore[ip].requests) = RATE_LIMIT_MAX_REQUESTS

\* the retry of a rejection of ip is due at the current instant
RetryIsDue(ip) == \E e \in retryDue[ip] : e.due <= now

\* ... of a rejection since which no request of ip was admitted
CleanRetryIsDue(ip) == \E e \in retryDue[ip] : e.due <= now /\ e.clean

\* the request of the step is admitted as the first of a new window
AdmittedAfresh(ip) ==
    /\ lastResult'.allowed
    /\ lastResult'.remaining = RATE_LIMIT_MAX_REQUESTS - 1
    /\ ~rateLimitStore'[ip].blocked
    /\ rateLimitStore'[ip].requests = <<now>>

\* the retry-after value of a rejection lies between 1 and the length of
\* the window in seconds
RetryAfterInRange ==
    /\ lastResult'.retryAfter >= 1
    /\ lastResult'.retryAfter * 1000 <= RATE_LIMIT_WINDOW_MS

\* C14 as stated: every rejection carries a retry-after value r between 1
\* and the window length in seconds, and the first request of the client at
\* or after r seconds following the rejection is admitted as the first of a
\* new window.
C14_FirstRequestAfterRetryAdmitted ==
    [][ \A ip \in Clients : RateCheckStep(ip) =>
          /\ ~lastResult'.allowed => RetryAfterInRange
          /\ RetryIsDue(ip) => AdmittedAfresh(ip) ]_vars

\* C14, amended: every rejection carries a retry-after value r between 1
\* and the window length in seconds, and the first request of the client at
\* or after r seconds following the rejection is admitted as the first of a
\* new window (block cleared, history reset) when no request of the client
\* was admitted between the rejection and that request.
C14_RetryAdmittedUnlessAdmittedSince ==
    [][ \A ip \in Clients : RateCheckStep(ip) =>
          /\ ~lastResult'.allowed => RetryAfterInRange
          /\ CleanRetryIsDue(ip) => AdmittedAfresh(ip) ]_vars

\* C14 witness: a client that filled its first window and was blocked by
\* the request after it, with a retry-after of one window, has been admitted
\* one window after that request, as the first request of a new window.
C14_Witness ==
    \E ip \in Clients :
        /\ now = RATE_LIMIT_WINDOW_MS + 1
        /\ lastResult.ip = ip /\ lastResult.at = now /\ lastResult.allowed
        /\ lastResult.remaining = RATE_LIMIT_MAX_REQUESTS - 1
        /\ admitted[ip][0] + admitted[ip][1] = RATE_LIMIT_MAX_REQUESTS
        /\ admitted[ip][RATE_LIMIT_WINDOW_MS] = 0
        /\ rateLimitStore[ip].requests = <<now>>
        /\ rateLimitStore[ip].blockedUntil = now
        /\ ~rateLimitStore[ip].blocked

\* the latest call is a get that immediately follows a set
GetFollowsSet == cacheOp.op = "get" /\ cacheOp.prev.op = "set"

\* C15: a get that immediately follows a set with the same query and corpus
\* version returns the entry that was set; a get with the same query and
\* another corpus version, under which the cache held nothing, misses.
C15_SetThenGet ==
    (GetFollowsSet /\ cacheOp.call.query = cacheOp.prev.query)
    => /\ cacheOp.call.version = cacheOp.prev.version => cacheOp.ret = cacheOp.prev.value
       /\ (cacheOp.call.version # cacheOp.prev.version /\ ~cacheOp.heldBeforePrev)
          => cacheOp.ret = NullEntry

\* C15 witness: in a full cache, an entry was set for "a" under one corpus
\* version and the get for "a" under the other version that followed has
\* missed.
C15_Witness ==
    /\ GetFollowsSet
    /\ cacheOp.call.query = <<"a">> /\ cacheOp.prev.query = <<"a">>
    /\ cacheOp.prev.version = <<"1", "-", "5">>
    /\ cacheOp.call.version = <<"2", "-", "5">>
    /\ cacheOp.ret = NullEntry
    /\ Len(cache) = maxSize /\ maxSize = 2
    /\ MapHas(cache, getKey(<<"a">>, <<"1", "-", "5">>))

\* the words of a string: its maximal runs of characters that are not
\* whitespace
RECURSIVE WordsOf(_, _)
WordsOf(s, word) ==
    IF s = <<>> THEN (IF word = <<>> THEN <<>> ELSE <<word>>)
    ELSE IF IsSpace(Head(s))
         THEN (IF word = <<>> THEN <<>> ELSE <<word>>) \o WordsOf(Tail(s), <<>>)
         ELSE WordsOf(Tail(s), Append(word, Head(s)))

\* two queries differ at most in letter case, in leading or trailing
\* whitespace and in the whitespace between their words
SameUpToCaseAndSpacing(q1, q2) ==
    LET w1 == WordsOf(q1, <<>>)
        w2 == WordsOf(q2, <<>>)
    IN  /\ Len(w1) = Len(w2)
        /\ \A i \in 1..Len(w1) :
              /\ Len(w1[i]) = Len(w2[i])
              /\ \A j \in 1..Len(w1[i]) : Lower(w1[i][j]) = Lower(w2[i][j])

\* C16: for one corpus version, the query of a call and another query have
\* the same cache key exactly when they differ at most in letter case and
\* in whitespace (leading, trailing, or between the words); an entry set
\* under one of two such queries is returned by the get under the other
\* that follows, and a get under a query that differs in another way does
\* not return it.
C16_KeyIgnoresCaseAndSpacing ==
    /\ cacheOp.op \in {"get", "set"}
          => \A c \in CacheCalls :
                c[2] = cacheOp.call.version
                => ( cacheOp.key = getKey(c[1], c[2])
                       <=> SameUpToCaseAndSpacing(cacheOp.call.query, c[1]) )
    /\ (GetFollowsSet /\ cacheOp.call.version = cacheOp.prev.version)
          => IF SameUpToCaseAndSpacing(cacheOp.call.query, cacheOp.prev.query)
             THEN cacheOp.ret = cacheOp.prev.value
             ELSE ~cacheOp.heldBeforePrev => cacheOp.ret = NullEntry

\* C16 witness: an entry was set under "a \tB" and the get under "a b" that
\* followed has returned it, the query "ab" being held under another key.
C16_Witness ==
    /\ GetFollowsSet
    /\ cacheOp.prev.query = <<"a", " ", "\t", "B">>
    /\ cacheOp.call.query = <<"a", " ", "b">>
    /\ cacheOp.ret = cacheOp.prev.value /\ cacheOp.ret # NullEntry
    /\ MapHas(cache, getKey(<<"a", "b">>, <<"1", "-", "5">>))
    /\ Len(cache) = 2

\* C17: whatever the sequence of get, set and clear calls of the requests,
\* the cache never holds more than maxSize entries, nor two entries under
\* one key: a set on a present key evicts nothing, a set of a new key
\* evicts exactly one entry when the cache is full and none otherwise, and
\* a get leaves every entry in the cache (the entry it promotes is back in
\* the Map when the call returns, and no other call runs before that).
C17_SizeNeverExceedsMaxSize ==
    [][ /\ maxSize >= 1
        /\ Len(cache') <= maxSize
        /\ Cardinality(MapKeys(cache')) = Len(cache')
        /\ cacheOp'.op = "set"
              => /\ MapHas(cache', cacheOp'.key)
                 /\ IF MapHas(cache, cacheOp'.key) \/ Len(cache) < maxSize
                    THEN MapKeys(cache) \subseteq MapKeys(cache')
                    ELSE /\ Cardinality(MapKeys(cache) \ MapKeys(cache')) = 1
                         /\ Len(cache') = maxSize
        /\ cacheOp'.op = "get"
              => /\ MapKeys(cache') = MapKeys(cache)
                 /\ \A k \in MapKeys(cache) : MapGet(cache', k) = MapGet(cache, k)
        /\ cacheOp'.op = "clear" => cache' = <<>> ]_vars

\* C17 witness: in a full cache of capacity 2, a set on a present key that
\* followed another set has replaced the value of its key and evicted
\* nothing.
C17_Witness ==
    /\ maxSize = 2 /\ Len(cache) = 2
    /\ cacheOp.op = "set" /\ cacheOp.prev.op = "set"
    /\ Cardinality(cacheOp.call.held) = 2
    /\ cacheOp.key \in cacheOp.call.held
    /\ cacheOp.prev.value # cacheOp.call.value
    /\ cacheOp.evicted = {}
    /\ MapGet(cache, cacheOp.key) = cacheOp.call.value

\* the names of the latest Stage A reply that are filenames of documents of
\* the input set, in the order of the reply
ValidNamesReceived ==
    SelectSeq(SelectedFiles(pipe.stageAReceived),
              LAMBDA f : \E i \in 1..Len(pipe.documents) : pipe.documents[i].filename = f)

\* C18: whatever the backend replies, every filename of the Stage A result
\* is the filename of a document of the input set and the result has at
\* most TopN entries; when the reply was read, the result is the first TopN
\* of its names that are filenames of the input set, in their order: a name
\* that matches no document is dropped and takes no place in the result.
C18_ShortlistWithinDocuments ==
    pipe.shortlisted
    => /\ Len(pipe.selectedFilenames) <= TopN
       /\ \A i \in 1..Len(pipe.selectedFilenames) :
             \E d \in 1..Len(pipe.documents) :
                 pipe.documents[d].filename = pipe.selectedFilenames[i]
       /\ pipe.stageAReply = "ok"
             => pipe.selectedFilenames
                  = SubSeq(ValidNamesReceived, 1, Min(TopN, Len(ValidNamesReceived)))

\* C18 witness: the reply named a file that does not exist followed by the
\* six documents; the result is the first five documents named.
C18_Witness ==
    /\ pipe.stageAReply = "ok"
    /\ pipe.documents = Corpus6
    /\ Len(pipe.stageAReceived.names) = 7
    /\ pipe.stageAReceived.names[1] = <<"g", "h", "o", "s", "t">> \o Txt
    /\ pipe.selectedFilenames =
          << Corpus6[6].filename, Corpus6[5].filename, Corpus6[4].filename,
             Corpus6[3].filename, Corpus6[2].filename >>

\* C19: with the key configured, once the Stage A call has been answered,
\* rejected or aborted there is a shortlist and the request has not failed
\* in Stage A: a reply that is read (a bare array, an object with or
\* without a known key, text, no content) gives the names read from it, and
\* a reply that makes the reading throw (a value that is not an array under
\* a known key, a response without choices), a backend error and a timeout
\* give the ranking of the scorer; a request fails in Stage B or in the
\* retry call only.
C19_StageANeverFails ==
    (KeyConfigured(pipe.apiKey) /\ Len(pipe.calls) >= 1 /\ pipe.awaiting # "stageA")
    => /\ pipe.shortlisted
       /\ pipe.stageAReceived.kind \in {"array", "object", "text", "nocontent"}
             => /\ pipe.stageAReply = "ok"
                /\ pipe.selectedFilenames
                     = SubSeq(ValidNamesReceived, 1, Min(TopN, Len(ValidNamesReceived)))
       /\ pipe.stageAReceived.kind \in {"objectString", "nochoices", "error"}
             => /\ pipe.stageAReply = "error"
                /\ pipe.selectedFilenames = StageAFallback(pipe.query, pipe.documents, TopN)
       /\ pipe.stageAReceived.kind = "none"
             => /\ pipe.stageAReply = "abort"
                /\ pipe.selectedFilenames = StageAFallback(pipe.query, pipe.documents, TopN)
       /\ pipe.thrown
             => /\ Len(pipe.calls) >= 2
                /\ pipe.stageBReply \in {"abort", "error"} \/ pipe.retryReply = "error"

\* C19 witness: the reply held a string where the array was expected, the
\* shortlist is the ranking of the scorer, and the request is Done.
C19_Witness ==
    /\ pipe.stageAReceived.kind = "objectString"
    /\ pipe.stageAReply = "error"
    /\ pipe.documents = Corpus6
    /\ Len(pipe.selectedFilenames) = TopN
    /\ pipe.state = "Done" /\ pipe.stageBReply = "ok"

\* C20: when the key of the backend is absent (or is the placeholder), a
\* call of searchDocuments, of selectRelevantDocuments or of generateAnswer
\* fails at once with the configuration error: no backend call is issued or
\* awaited, no shortlist is made by the scorer, and no entry of the cache is
\* added, replaced or removed; POST /search answers 503 unless it answers
\* without the pipeline (no document loaded, or a cache hit).
C20_NoKeyFailsAtOnce ==
    [][ (pipe'.via # "none" /\ ~KeyConfigured(pipe'.apiKey))
        => /\ pipe'.calls = <<>> /\ pipe'.awaiting = "none"
           /\ ~pipe'.shortlisted /\ pipe'.selectedFilenames = <<>>
           /\ pipe'.stageAReply = "none" /\ pipe'.stageBReply = "none"
           /\ pipe'.retryReply = "none"
           /\ MapKeys(cache') = MapKeys(cache)
           /\ \A k \in MapKeys(cache) : MapGet(cache', k) = MapGet(cache, k)
           /\ cacheOp'.op # "set"
           /\ (pipe'.via \in {"call", "stageA", "stageB"} \/ ~pipe'.returned)
                => /\ pipe'.state = "Failed" /\ pipe'.thrown /\ ~pipe'.returned
                   /\ Includes(pipe'.error, "GROQ_API_KEY")
                   /\ pipe'.path = <<"Idle", "Failed">>
           /\ (pipe'.via = "route" /\ pipe'.thrown) => pipe'.status = 503 ]_vars

\* C20 witness: selectRelevantDocuments was called with six documents and
\* without a key, and has thrown the configuration error, the cache holding
\* the entries of earlier requests.
C20_Witness ==
    /\ pipe.via = "stageA" /\ pipe.apiKey = "absent"
    /\ pipe.documents = Corpus6
    /\ pipe.thrown /\ pipe.error = SelectorKeyErrorMessage
    /\ pipe.calls = <<>> /\ pipe.selectedFilenames = <<>>
    /\ Len(cache) = 2

\* C21: the step of a POST /ingest run that sends the response of a run
\* that completed (status 200) leaves the index and the cached fingerprint
\* invalidated and the response cache empty; every other step of a run,
\* the one that answers for a failed run (status 500) included, leaves the
\* index, the fingerprint and the cache as they were.
C21_IngestInvalidatesAndClears ==
    [][ingest' # ingest =>
          IF ingest'.status = 200
          THEN documentIndex' = NoBuild /\ corpusVersion' = NullVersion /\ cache' = <<>>
          ELSE UNCHANGED <<documentIndex, corpusVersion, cache>>]_vars

\* C21 witness: a run over two files, one ingested and one failed, has
\* answered 200; its clear emptied a cache that held two entries, and the
\* index and the fingerprint are invalidated.
C21_Witness ==
    /\ ingest.pc = "idle" /\ ingest.status = 200
    /\ ingest.success = 1 /\ ingest.failed = 1
    /\ Len(db) = 1
    /\ cacheOp.op = "clear" /\ Cardinality(cacheOp.evicted) = 2
    /\ cache = <<>> /\ documentIndex = NoBuild /\ corpusVersion = NullVersion

\* C22: while a search request is suspended in Stage A or in Stage B, the
\* array of documents it holds has the records Stage A was called with,
\* whatever POST /index/rebuild has invalidated and rebuilt meanwhile; and
\* the documents Stage B is called with are those records (Stage A has
\* selected every filename).
C22_RequestHoldsItsSnapshot ==
    \A h \in Handlers :
        /\ handlers[h].pc \in {"stageA", "stageB"} => Documents(h) = handlers[h].sent
        /\ handlers[h].pc = "stageB" => handlers[h].selectedDocs = handlers[h].sent

\* C22 witness: a request is suspended in Stage B with the one record of
\* a.txt, and the index was rebuilt meanwhile, after a.txt was removed: the
\* installed index is another array, with no record.
C22_Witness ==
    \E h \in Handlers :
        /\ handlers[h].pc = "stageB"
        /\ Len(handlers[h].sent) = 1 /\ handlers[h].sent[1].filename = "a.txt"
        /\ handlers[h].selectedDocs = handlers[h].sent
        /\ documentIndex # NoBuild /\ documentIndex # handlers[h].docs
        /\ builds[documentIndex].pc = "done"
        /\ ArrayOf(documentIndex) = <<>>

\* the request of handler h has fetched its documents
Fetched(h) == handlers[h].source # "none"

\* the step is the cache lookup of the request of handler h: the lookup
\* misses and the pipeline is called, or it hits and the request is answered
LookupMisses(h) ==
    handlers[h].pc \in {"haveDocs", "fingerprint"} /\ handlers'[h].pc = "stageA"

LookupHits(h) ==
    /\ handlers[h].pc \in {"haveDocs", "fingerprint"} /\ handlers'[h].pc = "idle"
    /\ Len(Documents(h)) > 0

\* C23, as claimed: the cache lookup of a search request precedes its
\* document fetch: no request looks the cache up after it has fetched its
\* documents.
C23_LookupPrecedesFetch ==
    [][\A h \in Handlers : (LookupMisses(h) \/ LookupHits(h)) => ~Fetched(h)]_vars

\* C23, amended: the document fetch precedes the cache lookup. A request
\* looks the cache up only after it has fetched at least one document; a
\* lookup that hits is answered with the entry held, without a call of the
\* pipeline and without a write to the cache; the pipeline is called only
\* by the step of a lookup that misses.
C23_FetchPrecedesLookup ==
    [][\A h \in Handlers :
          /\ (LookupMisses(h) \/ LookupHits(h))
                => /\ Fetched(h) /\ Len(Documents(h)) > 0
                   /\ cacheOp'.op = "get"
                   /\ cacheOp'.key = getKey(handlers[h].query, cacheOp'.call.version)
          /\ LookupHits(h)
                => /\ MapHas(cache, cacheOp'.key)
                   /\ cacheOp'.ret = MapGet(cache, cacheOp'.key)
                   /\ MapKeys(cache') = MapKeys(cache)
          /\ LookupMisses(h) => ~MapHas(cache, cacheOp'.key) /\ cacheOp'.ret = NullEntry
          /\ (handlers[h].pc # "stageA" /\ handlers'[h].pc = "stageA") => LookupMisses(h)
          /\ (\A g \in Handlers : ~Fetched(g)) => cacheOp' = cacheOp /\ cache' = cache]_vars

\* C23 witness: a request that fetched the row of a.txt from the database
\* was answered from the cache: its lookup hit the entry an earlier request
\* had written.
C23_Witness ==
    /\ cacheOp.op = "get" /\ cacheOp.ret # NullEntry
    /\ cacheOp.prevHit = <<>> /\ Len(cache) = 1
    /\ lastRead # NoRead /\ lastRead.token = <<"d", "b", "-", "1", "-", "0">>
    /\ \A h \in Handlers : handlers[h].pc = "idle"

\* the index of build bd has one record for every file of its listing that
\* was not skipped, in the order of the listing, numbered from 1
OneRecordPerExtractedFile(bd) ==
    LET extracted == SelectSeq(bd.listing, LAMBDA f : f \notin bd.skipped)
    IN  /\ Len(bd.index) = Len(extracted)
        /\ \A i \in 1..Len(bd.index) :
              /\ bd.index[i].id = i
              /\ bd.index[i].filename = extracted[i]
              /\ bd.index[i].filetype = Filetype(extracted[i])

\* C24: every step of the extraction loop of a build either appends the
\* record of the next file listed or skips that file, leaves the records
\* already built as they are, and goes on to the next file; after the last
\* file the build installs its index, which holds one record for every
\* file whose extraction succeeded, in listing order, with ids 1..k.
C24_FailingFilesAreSkipped ==
    [][\A b \in Builds :
          (builds[b].pc = "extract" /\ builds'[b] # builds[b])
          => LET old == builds[b]
                 new == builds'[b]
                 f == old.listing[old.pos]
             IN  /\ new.pc = IF old.pos = Len(old.listing) THEN "fingerprint" ELSE "extract"
                 /\ new.listing = old.listing
                 /\ \/ /\ Len(new.index) = Len(old.index) + 1
                       /\ SubSeq(new.index, 1, Len(old.index)) = old.index
                       /\ new.index[Len(new.index)].filename = f
                       /\ new.skipped = old.skipped
                    \/ /\ new.index = old.index
                       /\ new.skipped = old.skipped \cup {f}
                 /\ new.pc = "fingerprint"
                       => documentIndex' = b /\ OneRecordPerExtractedFile(new)]_vars

\* C24 witness: a build over the listing a.txt, b.txt in which a.txt failed
\* extraction has installed an index whose one record is b.txt, with id 1.
C24_Witness ==
    \E b \in Builds :
        /\ documentIndex = b
        /\ builds[b].pc \in {"fingerprint", "done"}
        /\ builds[b].listing = <<"a.txt", "b.txt">>
        /\ builds[b].skipped = {"a.txt"}
        /\ Len(builds[b].index) = 1
        /\ builds[b].index[1].filename = "b.txt" /\ builds[b].index[1].id = 1

\* the supported files of directory d, and the latest of their times
SupportedIn(d) == {f \in FileNames : isSupported(f) /\ d[f] # NoFile}

LatestIn(d) ==
    IF SupportedIn(d) = {} THEN 0
    ELSE CHOOSE m \in {d[f] : f \in SupportedIn(d)} : \A f \in SupportedIn(d) : d[f] <= m

\* The directories the directory of a state is compared with.
Directories == [FileNames -> 0..(MaxMtime + 1)]

\* the step is the end of a call of generateCorpusVersion by a build: the
\* token it returns becomes corpusVersion
FingerprintComputed ==
    \E b \in Builds : builds[b].pc = "fingerprint" /\ builds'[b].pc # "fingerprint"

\* token is the token of a function of the number of supported files and
\* of their latest time, at directory dir: a directory equal in both has
\* the same token, a directory with one more supported file has another,
\* and a directory that differs in the time of an unsupported file has the
\* same
TokenOfCountAndLatest(token, dir) ==
    /\ \A d \in Directories :
          (Cardinality(SupportedIn(d)) = Cardinality(SupportedIn(dir))
             /\ LatestIn(d) = LatestIn(dir))
          => CorpusVersionOf(d) = token
    /\ \A f \in FileNames, m \in 1..(MaxMtime + 1) :
          /\ (isSupported(f) /\ dir[f] = NoFile)
                => CorpusVersionOf([dir EXCEPT ![f] = m]) # token
          /\ ~isSupported(f) => CorpusVersionOf([dir EXCEPT ![f] = m]) = token

IsErrorToken(token) ==
    Len(token) > 6 /\ SubSeq(token, 1, 6) = <<"e", "r", "r", "o", "r", "-">>

\* C25, as claimed: every token generateCorpusVersion returns depends only
\* on the number of supported files and on their latest modification time.
C25_TokenOfCountAndLatestOnly ==
    [][FingerprintComputed => TokenOfCountAndLatest(corpusVersion', fs)]_vars

\* C25, amended: when the directory can be listed and its files stat'ed,
\* the token generateCorpusVersion returns depends only on the number of
\* supported files and on their latest modification time (equal in both:
\* same token; one more supported file: another token; another time of an
\* unsupported file: same token); when a call on the file system rejects,
\* the token is error-<the current time> whatever the directory holds.
C25_TokenOfCountAndLatestWhenReadable ==
    [][FingerprintComputed =>
          IF IsErrorToken(corpusVersion')
          THEN corpusVersion' = <<"e", "r", "r", "o", "r", "-">> \o Digits(now)
          ELSE TokenOfCountAndLatest(corpusVersion', fs)]_vars

\* C25 witness: the token 2-1 was computed over a directory that holds two
\* supported files.
C25_Witness ==
    /\ corpusVersion = <<"2", "-", "1">>
    /\ Cardinality(SupportedIn(fs)) = 2
    /\ documentIndex # NoBuild /\ builds[documentIndex].pc = "done"

\* the query is a string that is not blank and has at most MAX_QUERY_LENGTH
\* characters
UsableQuery(query) ==
    /\ query.type = "string"
    /\ \E i \in 1..Len(query.value) : ~IsSpace(query.value[i])
    /\ Len(query.value) <= MAX_QUERY_LENGTH

\* C26: the query of every search request being handled is a string that
\* is not blank and has at most MAX_QUERY_LENGTH characters; and the step
\* that rejects a query (one that is missing, not a string, blank, or too
\* long) answers 400 and leaves the handlers, the database, the cache, the
\* index and its fingerprint, and the pipeline as they were: no document is
\* fetched, the cache is neither read nor written, no backend call is
\* issued.
C26_InvalidQueryRejectedFirst ==
    [][/\ \A h \in Handlers :
             handlers'[h].pc # "idle" => UsableQuery(StringQuery(handlers'[h].query))
       /\ lastRejected' # lastRejected
             => /\ ~UsableQuery(lastRejected'.query)
                /\ lastRejected'.status = 400
                /\ UNCHANGED <<handlers, db, cacheVars, documentIndex, corpusVersion,
                               builds, lastRead, pipe>>]_vars

\* C26 witness: a query of 2001 characters was rejected as too long by a
\* server whose cache holds an entry and whose index is installed, while no
\* request is being handled.
C26_Witness ==
    /\ lastRejected.status = 400 /\ lastRejected.error = "Query too long"
    /\ Len(lastRejected.query.value) = MAX_QUERY_LENGTH + 1
    /\ Len(cache) = 1 /\ cacheOp.op = "set"
    /\ documentIndex # NoBuild
    /\ \A h \in Handlers : handlers[h].pc = "idle"

\* the number of places of text at which the token occurs, whatever the case
Occurrences(token, text) ==
    Cardinality({i \in 1..Len(text) : OccursAt(token, ToLowerCase(text), i)})

\* the occurrences of the tokens in text, summed over the tokens
RECURSIVE Hits(_, _)
Hits(tokens, text) ==
    IF tokens = <<>> THEN 0
    ELSE Occurrences(Head(tokens), text) + Hits(Tail(tokens), text)

\* the score of a is at least the score of b, the score being
\* score / sqrt(length): compared by the squares
ScoreAtLeast(a, b) ==
    a.relevanceScore.score * a.relevanceScore.score * b.relevanceScore.length
        >= b.relevanceScore.score * b.relevanceScore.score * a.relevanceScore.length

ForwardCount(positions, p, windowSize) ==
    Cardinality({k \in 1..Len(positions) :
                    p <= positions[k] /\ positions[k] <= p + windowSize})

\* the earliest recorded offset whose forward window holds the most
Anchor(positions, windowSize) ==
    CHOOSE p \in {positions[k] : k \in 1..Len(positions)} :
        \A k \in 1..Len(positions) :
            /\ ForwardCount(positions, positions[k], windowSize)
                  <= ForwardCount(positions, p, windowSize)
            /\ positions[k] < p
                  => ForwardCount(positions, positions[k], windowSize)
                        < ForwardCount(positions, p, windowSize)

\* C28: when the document holds match offsets, the window extractBestWindow
\* returns holds the character at the earliest offset whose forward window
\* of windowSize characters holds the most recorded offsets; and for the
\* document of 2000 characters with the offsets 50, 60 and 1800 and a
\* windowSize of 200 the window holds the characters at 50 and at 60 and not
\* the one at 1800. (Within a document used here, the character at a
\* recorded offset occurs nowhere else.)
C28_WindowHoldsAnchor ==
    (textCall.fn = "extractBestWindow" /\ textCall.documents[1].matchPositions # <<>>) =>
        LET doc == textCall.documents[1]
            positions == doc.matchPositions
        IN  /\ Includes(textCall.result,
                        doc.content[Anchor(positions, textCall.windowSize) + 1])
            /\ (Len(doc.content) = 2000 /\ positions = <<50, 60, 1800>>
                    /\ textCall.windowSize = 200)
               => /\ Includes(textCall.result, doc.content[51])
                  /\ Includes(textCall.result, doc.content[61])
                  /\ ~Includes(textCall.result, doc.content[1801])

\* C28 witness: extractBestWindow has returned the window of the document
\* of 2000 characters with the offsets 50, 60 and 1800, for a windowSize of
\* 200: the first 200 characters and an ellipsis.
C28_Witness ==
    /\ textCall.fn = "extractBestWindow"
    /\ Len(textCall.documents[1].content) = 2000
    /\ textCall.documents[1].matchPositions = <<50, 60, 1800>>
    /\ textCall.windowSize = 200
    /\ Len(textCall.result) = 203
    /\ textCall.result[51] = "a"

\* the characters of the block of a ranked document: "[", the filename,
\* "]" and a newline, its window of 1000 characters, and two newlines
BlockSize(doc) == Len(doc.filename) + 3 + Len(extractBestWindow(doc, 1000)) + 2

\* the running total after the header and the blocks of the first k documents
RECURSIVE RunningTotal(_, _)
RunningTotal(ranked, k) ==
    IF k = 0 THEN ContextHeaderLength
    ELSE RunningTotal(ranked, k - 1) + BlockSize(ranked[k])

\* C29: formatDocumentsForContext packs the blocks of the longest prefix of
\* the first maxDocs documents of the scorer's ranking whose running total,
\* header included, stays within maxChars; the marker of omitted documents
\* is appended exactly when that prefix is not all of them, and no document
\* after the prefix is packed; selectedDocs lists the filename, filetype and
\* score of exactly the packed documents, in ranked order.
C29_PackStopsAtFirstOverflow ==
    textCall.fn = "formatDocumentsForContext" =>
        LET ranked == scoreDocumentsByKeywords(textCall.query, textCall.documents)
            top == Min(textCall.maxDocs, Len(ranked))
            fits == {k \in 0..top : RunningTotal(ranked, k) <= textCall.maxChars}
            included == CHOOSE k \in fits : \A j \in fits : j <= k
            blocks == textCall.result.context.blocks
            selected == textCall.result.selectedDocs
        IN  /\ Len(blocks) = included /\ Len(selected) = included
            /\ \A i \in 1..included :
                  /\ blocks[i].filename = ranked[i].filename
                  /\ blocks[i].window = extractBestWindow(ranked[i], 1000)
                  /\ selected[i] = [filename |-> ranked[i].filename,
                                    filetype |-> ranked[i].filetype,
                                    relevanceScore |-> ranked[i].relevanceScore]
            /\ textCall.result.context.omitted <=> included < top

\* C29 witness: formatDocumentsForContext has packed cat.txt alone and added
\* the marker for a budget of 51 characters: the block of b.txt, ranked
\* second, did not fit, and the block of d.txt, ranked third, would have.
C29_Witness ==
    /\ textCall.fn = "formatDocumentsForContext"
    /\ textCall.query = <<"c", "a", "t">>
    /\ textCall.maxChars = 51 /\ textCall.maxDocs = 3
    /\ Len(textCall.documents) = 3
    /\ \E i \in 1..3 : textCall.documents[i] = Corpus6[2]
    /\ \E i \in 1..3 : textCall.documents[i] = Corpus6[4]
    /\ Len(textCall.result.selectedDocs) = 1
    /\ textCall.result.selectedDocs[1].filename = <<"c", "a", "t">> \o Txt
    /\ textCall.result.context.omitted
    /\ ContextHeaderLength + BlockSize(scoreDocumentsByKeywords(textCall.query,
                                          textCall.documents)[1])
          + BlockSize(scoreDocumentsByKeywords(textCall.query, textCall.documents)[3])
          <= textCall.maxChars

\* C30 as stated: the step in which the timer of the Stage B call fires
\* surfaces no failure and issues the call of the cheaper fallback.
C30_TimeoutRetriedBeforeFailure ==
    [][(pipe.awaiting = "stageB" /\ pipe'.stageBReply = "abort")
          => /\ ~pipe'.thrown
             /\ pipe'.awaiting = "retry"
             /\ Len(pipe'.calls) = Len(pipe.calls) + 1
             /\ pipe'.calls[Len(pipe'.calls)].stage = "retry"]_vars

\* C30 amended: the step in which the timer of the Stage B call fires
\* fails the request with the timeout error and issues no call; the step in
\* which the Stage B call is rejected with a rate-limit error surfaces no
\* failure and issues the one call of the cheaper fallback (the small
\* model, a smaller character budget); and no step issues a call while
\* that call is awaited.
C30_TimeoutSurfacedRateLimitRetried ==
    [][/\ (pipe.awaiting = "stageB" /\ pipe'.stageBReply = "abort")
          => /\ pipe'.thrown /\ pipe'.state = "Failed"
             /\ pipe'.error = TimeoutErrorMessage
             /\ pipe'.awaiting = "none"
             /\ pipe'.calls = pipe.calls
       /\ (pipe.awaiting = "stageB" /\ pipe'.stageBReply = "rate_limit")
          => /\ ~pipe'.thrown /\ pipe'.state # "Failed"
             /\ pipe'.awaiting = "retry"
             /\ Len(pipe'.calls) = Len(pipe.calls) + 1
             /\ SubSeq(pipe'.calls, 1, Len(pipe.calls)) = pipe.calls
             /\ pipe'.calls[Len(pipe'.calls)].stage = "retry"
             /\ pipe'.calls[Len(pipe'.calls)].model = SmallModel
             /\ pipe'.calls[Len(pipe'.calls)].maxChars
                   < pipe.calls[Len(pipe.calls)].maxChars
       /\ pipe.awaiting = "retry" => pipe'.calls = pipe.calls]_vars

\* C30 witness: generateAnswer was called with two documents, the timer of
\* its call fired, and it has thrown the timeout error after that one call.
C30_Witness ==
    /\ pipe.via = "stageB"
    /\ Len(pipe.selectedDocs) = 2
    /\ pipe.stageBReply = "abort"
    /\ pipe.thrown /\ pipe.error = TimeoutErrorMessage
    /\ Len(pipe.calls) = 1 /\ pipe.calls[1].stage = "stageB"

\* the step is a cache lookup of the search request h that hits
HitBy(h) ==
    /\ handlers[h].kind = "search"
    /\ handlers[h].pc \in {"haveDocs", "fingerprint"}
    /\ Len(Documents(h)) # 0
    /\ handlers'[h].pc = "idle"
    /\ cacheOp'.op = "get" /\ cacheOp'.ret # NullEntry

\* C31: the answer a cache hit returns was computed from the documents the
\* request that hits has loaded (the answer of the model is the sequence of
\* the documents it was computed from).
C31_HitAnswersFromLoadedDocuments ==
    [][\A h \in Handlers : HitBy(h) => cacheOp'.ret.answer = Documents(h)]_vars

\* C32: whenever corpusVersion is set (and is not the token of a failed
\* reading of the directory), documentIndex is set too and corpusVersion is
\* the fingerprint of the directory as the build of the installed index has
\* listed it: of a directory whose supported files are the files of that
\* listing.
C32_VersionIsOfInstalledIndex ==
    (corpusVersion # NullVersion /\ ~IsErrorToken(corpusVersion))
    => /\ documentIndex # NoBuild
       /\ \E dir \in Directories :
             /\ Listing(dir) = builds[documentIndex].listing
             /\ corpusVersion = CorpusVersionOf(dir)

\* the build has extracted a file that the directory still holds, as it
\* was when it was extracted
ExtractedAFileStillHeld(b) ==
    \E i \in 1..Len(builds[b].index) :
        fs[builds[b].index[i].filename] = builds[b].index[i].content

\* C33: when the build that getIndexedDocuments awaits, having found no
\* index installed, returns (getIndexedDocuments resumes on that return and
\* returns documentIndex || [] before any other request runs), and that
\* build has extracted a file the directory still holds, while no build in
\* progress or installed has failed to extract a file, an index is
\* installed and is not empty.
C33_GetReturnsTheRebuiltIndex ==
    [][\A h \in Handlers :
          ( /\ handlers[h].pc = "awaitBuild"
            /\ builds[handlers[h].build].pc = "fingerprint"
            /\ builds'[handlers[h].build].pc = "done"
            /\ ExtractedAFileStillHeld(handlers[h].build)
            /\ \A b \in Builds : builds[b].skipped = {} )
          => /\ documentIndex' # NoBuild
             /\ builds'[documentIndex'].index # <<>>]_vars

\* C34: after a set on a key the cache holds, the entry of that key is the
\* most recently used one: the last the evictions reach, which remove the
\* first entry of the Map.
C34_SetOnPresentKeyIsAUse ==
    [][(cacheOp'.op = "set" /\ MapHas(cache, cacheOp'.key))
          => cache'[Len(cache')].key = cacheOp'.key]_vars

\* the backend call that produced the answer of a request that has
\* returned one: the retry call, or else the Stage B call
AnswerCall == pipe.calls[Len(pipe.calls)]

\* C35: when a request has returned the answer of the Stage B call or of
\* the retry call, the filenames of the sources it reports are the
\* filenames of the documents packed into the context of that call.
C35_SourcesAreTheContextDocuments ==
    (pipe.returned /\ (pipe.stageBReply = "ok" \/ pipe.retryReply = "ok"))
    => {pipe.result.sources[i].filename : i \in 1..Len(pipe.result.sources)}
          = {AnswerCall.docs[i] : i \in 1..Len(AnswerCall.docs)}

\* the results searchDocuments and POST /search return, and the entries
\* of the cache
HeldResults ==
    {cache[i].value : i \in 1..Len(cache)}
        \cup (IF pipe.returned /\ pipe.via \in {"call", "route"} THEN {pipe.result} ELSE {})

\* C36 as stated: in every result and every cache entry documentsSelected
\* is the number of the sources and is at most 5.
C36_SelectedCountsTheSources ==
    \A r \in HeldResults :
        r.documentsSelected = Len(r.sources) /\ r.documentsSelected <= TopN

\* C36 amended: in every result and every cache entry documentsSelected is
\* at most 5, and the sources number documentsSelected or, from the retry
\* call, the lesser of 3 and documentsSelected; in the result of a request that ran the
\* pipeline documentsSelected is the number of the documents Stage A has
\* selected, and the sources number documentsSelected unless the answer is
\* that of the retry call, where they number the lesser of 3 and
\* documentsSelected.
C36_SelectedCountsStageASelection ==
    /\ \A r \in HeldResults :
          /\ r.documentsSelected <= TopN
          /\ Len(r.sources) \in {r.documentsSelected, Min(SmallMaxDocs, r.documentsSelected)}
    /\ (pipe.returned /\ pipe.via = "call" /\ pipe.shortlisted)
       => /\ pipe.result.documentsSelected = Len(pipe.selectedDocs)
          /\ Len(pipe.result.sources)
                = IF pipe.retryReply = "ok" THEN Min(SmallMaxDocs, pipe.result.documentsSelected)
                  ELSE pipe.result.documentsSelected

\* C36 witness: the cache holds the result of a request whose Stage A
\* selected five documents and whose answer came from the retry call:
\* documentsSelected is 5 and three sources are reported.
C36_Witness ==
    /\ pipe.via = "route" /\ pipe.returned /\ pipe.retryReply = "ok"
    /\ Len(pipe.selectedDocs) = 5
    /\ pipe.result.documentsSelected = 5 /\ Len(pipe.result.sources) = 3
    /\ \E i \in 1..Len(cache) : cache[i].value = pipe.result

\* `\n[More documents available but omitted due to context limit]\n`.length
OmissionMarkerLength == 61

\* context.length of a result of formatDocumentsForContext: the header, the
\* blocks and, where it was appended, the marker of omitted documents
RECURSIVE BlocksLength(_)
BlocksLength(blocks) ==
    IF blocks = <<>> THEN 0
    ELSE Len(Head(blocks).filename) + 3 + Len(Head(blocks).window) + 2
            + BlocksLength(Tail(blocks))

ContextLength(context) ==
    ContextHeaderLength + BlocksLength(context.blocks)
        + (IF context.omitted THEN OmissionMarkerLength ELSE 0)

\* C37: the context formatDocumentsForContext returns has at most maxChars
\* characters, counting the header, every packed block and the marker of
\* omitted documents.
C37_ContextWithinBudget ==
    textCall.fn = "formatDocumentsForContext"
        => ContextLength(textCall.result.context) <= textCall.maxChars

\* how many of the timestamps a client's history holds are t
TimestampsAt(store, ip, t) ==
    Len(SelectSeq(RequestsOf(store, ip), LAMBDA time : time = t))

\* the step is the arrival of a request of ip that checkRateLimit has
\* allowed and recorded: one more timestamp of this instant, the latest
Recorded(ip) ==
    /\ lastResult'.ip = ip /\ lastResult'.at = now /\ lastResult'.allowed
    /\ TimestampsAt(rateLimitStore', ip, now) = TimestampsAt(rateLimitStore, ip, now) + 1
    /\ RequestsOf(rateLimitStore', ip)[Len(RequestsOf(rateLimitStore', ip))] = now

\* the step is the arrival of a request that checkRateLimit has rejected
Throttled ==
    /\ ~lastResult'.allowed
    /\ retryDue' # retryDue \/ lastResult' # lastResult \/ rateLimitStore' # rateLimitStore

\* C38: POST /search evaluates admission before validation and before the
\* cache: a step that rejects a query as invalid, or that starts the work
\* on a valid one, is a step in which checkRateLimit has allowed the request
\* and recorded one timestamp in its client's history; a throttled request
\* is neither validated nor started and touches no cache entry; and no later
\* step of a request (the empty-corpus message, a cache hit, a failure or a
\* result of the pipeline) changes the history.
C38_AdmissionBeforeValidation ==
    [][/\ (lastRejected' # lastRejected) => \E ip \in Clients : Recorded(ip)
       /\ \A h \in Handlers :
             (handlers[h].pc = "idle" /\ handlers'[h].pc # "idle")
                => \E ip \in Clients : Recorded(ip)
       /\ Throttled => UNCHANGED <<handlers, lastRejected, cacheVars>>
       /\ \A h \in Handlers :
             (handlers[h].pc # "idle" /\ handlers'[h] # handlers[h])
                => UNCHANGED <<rateLimitStore, admitted>>]_vars

\* C38 witness: a request was rejected as invalid and a request was
\* answered from the cache, and the history of their client holds the
\* timestamps of both and of the request that filled the cache.
C38_Witness ==
    /\ lastRejected.status = 400
    /\ lastResult.allowed
    /\ handlers[1].pc = "idle"
    /\ cacheOp.op = "get" /\ cacheOp.ret # NullEntry
    /\ Len(RequestsOf(rateLimitStore, lastResult.ip)) >= 3

\* the supported files the run of ingestDocuments that is completing has
\* listed
FilesOfRun == IF ingest.pc = "readdir" THEN Listing(fs) ELSE ingest.listing

\* C39: when POST /ingest (ingestDocuments with clearExisting) completes
\* without error, the table documents holds exactly the rows of the files of
\* the run that were extracted and inserted: as many rows as the run counts
\* successes, each of a supported file the run has listed, no file twice;
\* none when the source holds no supported file.
C39_StoreHoldsTheIngestedFiles ==
    [][(ingest.pc # "idle" /\ ingest'.pc = "idle" /\ ingest'.status = 200)
          => /\ Len(db') = ingest'.success
             /\ \A i \in 1..Len(db') :
                   \E k \in 1..Len(FilesOfRun) : db'[i].filename = FilesOfRun[k]
             /\ \A i, j \in 1..Len(db') : db'[i].filename = db'[j].filename => i = j]_vars

\* C40: when the document holds match offsets, the window extractBestWindow
\* returns holds the character at every recorded offset counted for the
\* anchor: every recorded offset from the anchor to the anchor plus
\* windowSize that lies inside the document. (Within a document used here,
\* the character at a recorded offset occurs nowhere else.)
C40_WindowHoldsCountedOffsets ==
    (textCall.fn = "extractBestWindow" /\ textCall.documents[1].matchPositions # <<>>) =>
        LET doc == textCall.documents[1]
            positions == doc.matchPositions
            anchor == Anchor(positions, textCall.windowSize)
        IN  \A k \in 1..Len(positions) :
                ( /\ anchor <= positions[k]
                  /\ positions[k] <= anchor + textCall.windowSize
                  /\ positions[k] < Len(doc.content) )
                => Includes(textCall.result, doc.content[positions[k] + 1])

====
